---- MODULE Spec2Model ----
(***************************************************************************)
(* Model of the jq Playground preview sessions (src/src/extension.ts).     *)
(*                                                                         *)
(* The extension host is one cooperative thread: every handler runs to its *)
(* next await without interleaving.  Each action below is one such run: a  *)
(* command, a change notification, a webview message, a timer callback, or *)
(* the continuation of an awaited call (the file picker, the evaluator).   *)
(*                                                                         *)
(* Paths are sequences of characters so that endsWith() is computed.       *)
(* Document texts are version numbers: an edit of a document produces a    *)
(* text that differs from every current copy of that document.             *)
(***************************************************************************)
EXTENDS Integers, Sequences, FiniteSets, TLC

\* ------------------------------------------------------------------ bounds
\* Environment events (commands, edits, messages, picks, closes) per run.
MaxEvents == 5
\* JqPreviewSession objects constructed per run.
MaxSessions == 2

\* Catalog flags the user toggles in the panel: the first NToggle of ToggleOrder.
NToggle == 2
\* Pieces between the quotes of a string that is embedded in the page.
MaxPieces == 2
\* Environment events per run that starts with two previews open.
PairEvents == 3

\* ------------------------------------------------------------- environment
Sessions == 1..MaxSessions

QJq   == <<"q", ".", "j", "q">>
DJson == <<"d", ".", "j", "s", "o", "n">>
TTxt  == <<"t", ".", "t", "x", "t">>

\* Filter documents the user may have in the active editor.
FilterDocs == {QJq}
\* vscode.window.activeTextEditor at the time of the command: none, a filter
\* document, or some other document.
NoEditor == <<>>
Editors == {NoEditor, TTxt} \cup FilterDocs
\* Workspace files the picker lists.
Files == {DJson, TTxt}
\* showQuickPick dismissed.
Undefined == <<"undefined">>

\* A file that is not on disk; an input document that is not open.
Missing == -1
Closed == -2

PreviewType == [Placeholder |-> "placeholder", Result |-> "result", Error |-> "error"]

\* How execAsync settles: it resolves with the standard output, or rejects
\* (non-zero exit, or no evaluator to run) with a text that executeJq's catch
\* turns into the message of its Error.
JqOutcomes == {"stdout", "diagnostic"}

Range(s) == {s[i] : i \in 1..Len(s)}

EndsWith(s, suffix) ==
    /\ Len(s) >= Len(suffix)
    /\ SubSeq(s, Len(s) - Len(suffix) + 1, Len(s)) = suffix

DotJson == <<".", "j", "s", "o", "n">>
DotJq == <<".", "j", "q">>

\* ------------------------------------------------------------------- state
VARIABLES
    previewSessions,    \* activate's Map: docUri -> session (0: no entry)
    sess,               \* the JqPreviewSession objects, by construction order
    openPicking,        \* open commands suspended at pickInputFile, per document
    filterText,         \* text of each filter document (in the editor)
    disk,               \* on-disk content of each workspace file (or Missing)
    editor,             \* in-editor text of each workspace file (or Closed)
    events,             \* environment events so far
    notice,             \* last showErrorMessage
    tmpdir,             \* os.tmpdir(): "ok", or "full" (writes to it fail)
    caught,             \* what executeJq's catch block starts from (see Caught)
    errMsg,             \* the message of the Error it throws
    created,            \* the document last made by openTextDocument (see NoDoc)
    untrusted,          \* an untrusted text the page is rendered with
    embedded,           \* the markup getWebviewContent embeds for it
    call,               \* one call of executeJq (see Calls)
    returned            \* the previewState that runUpdate makes of it

vars == <<previewSessions, sess, openPicking, filterText, disk, editor, events, notice,
          tmpdir, caught, errMsg, created, untrusted, embedded, call, returned>>

\* ------------------------------------------------- values held by a session
\* previewState.content.  The evaluator's text is kept symbolically, as what it
\* was computed from: kind says which text it is, the other fields what the
\* text depends on.
Content(kind, filter, input, opts, shown) ==
    [kind |-> kind, filter |-> filter, input |-> input, opts |-> opts, shown |-> shown]

\* 'Loading...'
LoadingContent == Content("loading", 0, 0, <<>>, <<>>)

\* A slot of sess whose session is not constructed yet.  Beside the fields of
\* the class: panel is the state of the WebviewPanel, html and indicator what
\* its page shows, choosing the chooseInput handlers suspended at the picker,
\* exc an exception on its way out of the running handler, threw whether one
\* ever left a handler, inflight the evaluator processes awaited, tmp the
\* temporary files of its executeJq calls that exist.  History,
\* kept for the properties: started counts the calls of runUpdate, applied
\* lists the calls whose result was assigned to previewState, burst counts
\* the calls of requestUpdate since runUpdate was last entered, served is the
\* value burst had when runUpdate was last entered, ranWith the input file
\* and the options that the call of runUpdate that ended last has read,
\* timers the number of 100 ms timers that are set and have neither fired nor
\* been cleared, lastMsg the last setLoading message posted to the page.
NoSession ==
    [panel |-> "none", docUri |-> <<>>, inputFile |-> <<>>, watched |-> <<>>,
     disposables |-> {}, options |-> <<>>,
     needUpdate |-> FALSE, updating |-> FALSE,
     previewState |-> [content |-> LoadingContent, type |-> PreviewType.Placeholder],
     lastLoadingState |-> FALSE, loadingIndicatorTimeout |-> FALSE,
     html |-> [kind |-> "blank"], indicator |-> FALSE,
     choosing |-> 0, exc |-> FALSE, threw |-> FALSE,
     inflight |-> {}, tmp |-> {}, started |-> 0, applied |-> <<>>, burst |-> 0, served |-> 0,
     ranWith |-> [file |-> <<>>, opts |-> <<>>], timers |-> 0, lastMsg |-> "none"]

\* The three subscriptions setupWatchers pushes.
AllDisposables == {"jsonWatcher", "jsonChangeDisposable", "queryChangeDisposable"}

\* ------------------------------------------------------- option-set policy
Catalog == <<"-c", "-n", "-R", "-r", "-s", "-S">>

\* Array.from(new Set(a)): first occurrences, in order.
RECURSIVE Dedup(_)
Dedup(a) ==
    IF a = <<>> THEN <<>>
    ELSE LET init == Dedup(SubSeq(a, 1, Len(a) - 1))
             last == a[Len(a)]
         IN  IF last \in Range(init) THEN init ELSE Append(init, last)

Without(a, v) == SelectSeq(a, LAMBDA opt : opt # v)

\* Mutant: a policy that adds -R but never removes it.
updateROptionNoRemove(inputFile, options) ==
    IF ~EndsWith(inputFile, DotJson)
    THEN Dedup(Append(options, "-R"))
    ELSE options

updateROption(inputFile, options) ==
    IF ~EndsWith(inputFile, DotJson)
    THEN Dedup(Append(options, "-R"))
    ELSE Without(options, "-R")

\* ------------------------------------------------------ loading indicator
\* A panel access (panel.webview) on a disposed panel either raises or is
\* ignored by the host; thr says which, for the handler run being modelled.
SetLoading(on) == IF on THEN "setLoading(true)" ELSE "setLoading(false)"

setLoadingIndicator(r, on, thr) ==
    IF r.panel = "disposed"
    THEN [r EXCEPT !.exc = thr]
    ELSE [r EXCEPT !.indicator = on, !.lastMsg = SetLoading(on)]

\* clearTimeout of the handle the session holds, if it holds one; the handle
\* of a timer that has fired clears nothing.
clearTimeout(r) ==
    IF r.loadingIndicatorTimeout
    THEN [r EXCEPT !.loadingIndicatorTimeout = FALSE,
                   !.timers = IF @ > 0 THEN @ - 1 ELSE 0]
    ELSE r

\* Mutant: an indicator that is switched on as soon as the session is busy.
updateLoadingIndicatorStateEager(r, thr) ==
    LET loading == r.needUpdate \/ r.updating
    IN  IF ~loading
        THEN LET r1 == clearTimeout(r)
                 r2 == setLoadingIndicator(r1, FALSE, thr)
             IN  IF r2.exc THEN r2 ELSE [r2 EXCEPT !.lastLoadingState = FALSE]
        ELSE LET r2 == setLoadingIndicator(r, TRUE, thr)
             IN  IF r2.exc THEN r2 ELSE [r2 EXCEPT !.lastLoadingState = TRUE]

updateLoadingIndicatorState(r, thr) ==
    LET loading == r.needUpdate \/ r.updating
    IN  IF ~loading
        THEN LET r1 == clearTimeout(r)
                 r2 == setLoadingIndicator(r1, FALSE, thr)
             IN  IF r2.exc THEN r2 ELSE [r2 EXCEPT !.lastLoadingState = FALSE]
        ELSE IF r.lastLoadingState
             THEN setLoadingIndicator(r, TRUE, thr)
             ELSE IF ~r.loadingIndicatorTimeout
                  THEN [r EXCEPT !.loadingIndicatorTimeout = TRUE, !.timers = @ + 1]
                  ELSE r

\* ---------------------------------------------------------------- rendering
\* getWebviewContent: the page shows the preview state, the options and the
\* input file as they are when it is rendered.
getWebviewContent(r) ==
    IF r.inputFile = <<>> THEN [kind |-> "noinput"] ELSE
    [kind |-> "page", type |-> r.previewState.type, content |-> r.previewState.content,
     options |-> r.options, inputFile |-> r.inputFile]

DeletedWarning == [kind |-> "deleted"]

\* Mutant: a re-render that takes the new page for one that never showed the
\* indicator.
setWebviewContentForgets(r, thr) ==
    IF r.panel = "disposed"
    THEN IF thr THEN [r EXCEPT !.exc = TRUE]
         ELSE updateLoadingIndicatorState(r, thr)
    ELSE updateLoadingIndicatorState(
            [r EXCEPT !.html = getWebviewContent(r), !.indicator = FALSE,
                      !.lastLoadingState = FALSE], thr)

\* Setting webview.html reloads the page: the indicator element starts inactive.
setWebviewContent(r, thr) ==
    IF r.panel = "disposed"
    THEN IF thr THEN [r EXCEPT !.exc = TRUE]
         ELSE updateLoadingIndicatorState(r, thr)
    ELSE updateLoadingIndicatorState(
            [r EXCEPT !.html = getWebviewContent(r), !.indicator = FALSE], thr)

\* ------------------------------------------------------------ update loop
\* The documents and files as a handler finds them.
Env(ft, dk, ed) == [filterText |-> ft, disk |-> dk, editor |-> ed, tmpdir |-> tmpdir]

\* Mutant: a read that always takes the file on disk.
ReadInputDiskOnly(inputFile, env) == env.disk[inputFile]

\* runUpdate's read: the open document's text if there is one, else the file.
ReadInput(inputFile, env) ==
    IF env.editor[inputFile] # Closed THEN env.editor[inputFile] ELSE env.disk[inputFile]

\* An exception that leaves an async function or a listener is not handled by
\* anyone: the session only records that it happened.
Settle(r) == [r EXCEPT !.exc = FALSE, !.threw = r.threw \/ r.exc]

\* executeJq up to its await: the temporary files hold the input content and
\* the filter text as they are now, the command line the options as they are now.
Snapshot(r, env, jsonContent) ==
    [id |-> r.started, input |-> jsonContent, file |-> r.inputFile,
     filter |-> env.filterText[r.docUri], opts |-> r.options]

\* The temporary files of the executeJq call numbered id.
TmpFile(id) == [id |-> id, file |-> "tmpFile"]
TmpFilter(id) == [id |-> id, file |-> "tmpFilter"]

\* The two writeFileSync of executeJq.  In a full directory the first one
\* creates its file and raises before anything is written.
writeTemp(r, id, env) ==
    IF env.tmpdir = "ok"
    THEN [r EXCEPT !.tmp = @ \cup {TmpFile(id), TmpFilter(id)}]
    ELSE [r EXCEPT !.tmp = @ \cup {TmpFile(id)}]

\* Mutant: a finally block that removes the input copy only.
unlinkTempInputOnly(r, id) == [r EXCEPT !.tmp = @ \ {TmpFile(id)}]

\* The finally block of executeJq: an unlinkSync for each file, errors ignored.
unlinkTemp(r, id) == [r EXCEPT !.tmp = @ \ {TmpFile(id), TmpFilter(id)}]

RECURSIVE runUpdate(_, _, _)

\* Mutant: a finally block that leaves updating set when no update is pending.
finallyBlockKeepsUpdating(r, env, thr) ==
    LET r1 == [r EXCEPT !.updating = r.needUpdate, !.exc = FALSE]
        r2 == IF r1.needUpdate
              THEN runUpdate([r1 EXCEPT !.updating = FALSE], env, thr)
              ELSE updateLoadingIndicatorState([r1 EXCEPT !.updating = TRUE], thr)
    IN  Settle([r2 EXCEPT !.exc = r2.exc \/ r.exc])

\* The finally block of runUpdate; r.exc tells whether the try block raised.
finallyBlock(r, env, thr) ==
    LET r1 == [r EXCEPT !.updating = FALSE, !.exc = FALSE]
        r2 == IF r1.needUpdate
              THEN runUpdate(r1, env, thr)
              ELSE updateLoadingIndicatorState(r1, thr)
    IN  Settle([r2 EXCEPT !.exc = r2.exc \/ r.exc])

\* Mutant: a runUpdate without its inner catch: a failure leaves the function.
applyResultRethrow(r, env, thr, id, output, isError) ==
    IF isError
    THEN finallyBlock([r EXCEPT !.exc = TRUE], env, thr)
    ELSE LET r1 == [r EXCEPT !.previewState =
                       [content |-> output, type |-> PreviewType.Result],
                             !.applied = Append(@, id)]
         IN  finallyBlock(setWebviewContent(r1, thr), env, thr)

\* Mutant: an assignment that replaces the tag and keeps the content.
applyResultTagOnly(r, env, thr, id, output, isError) ==
    LET r1 == [r EXCEPT !.previewState.type =
                           IF isError THEN PreviewType.Error ELSE PreviewType.Result,
                        !.applied = Append(@, id)]
    IN  finallyBlock(setWebviewContent(r1, thr), env, thr)

\* The assignment of previewState and what follows it in runUpdate, for the
\* call of runUpdate numbered id.
applyResult(r, env, thr, id, output, isError) ==
    LET r1 == [r EXCEPT !.previewState =
                  [content |-> output,
                   type |-> IF isError THEN PreviewType.Error ELSE PreviewType.Result],
                        !.applied = Append(@, id)]
    IN  finallyBlock(setWebviewContent(r1, thr), env, thr)

\* Mutant: runUpdate that does not raise the updating flag.
runUpdateNoFlag(r, env, thr) ==
    LET r1 == [r EXCEPT !.needUpdate = FALSE,
                        !.started = @ + 1, !.burst = 0, !.served = r.burst]
        r2 == updateLoadingIndicatorState(r1, thr)
        jsonContent == ReadInput(r.inputFile, env)
        r3 == [r2 EXCEPT !.ranWith = [file |-> r.inputFile, opts |-> r.options]]
    IN  IF r2.exc THEN Settle(r2)
        ELSE IF jsonContent = Missing
        THEN applyResult(r3, env, thr, r2.started,
                         Content("enoent", 0, 0, <<>>, r.inputFile), TRUE)
        ELSE IF env.tmpdir # "ok"
        THEN applyResult(unlinkTemp(writeTemp(r3, r2.started, env), r2.started),
                         env, thr, r2.started,
                         Content("enospc", 0, 0, <<>>, r.inputFile), TRUE)
        ELSE [writeTemp(r2, r2.started, env) EXCEPT
                 !.inflight = @ \cup {Snapshot(r2, env, jsonContent)}]

\* runUpdate from its first line to the await of the evaluator process, or to
\* its end when the read or executeJq's writes fail (the continuation of an
\* await on a promise that is already rejected runs before any other handler).
runUpdate(r, env, thr) ==
    LET r1 == [r EXCEPT !.updating = TRUE, !.needUpdate = FALSE,
                        !.started = @ + 1, !.burst = 0, !.served = r.burst]
        r2 == updateLoadingIndicatorState(r1, thr)
        jsonContent == ReadInput(r.inputFile, env)
        r3 == [r2 EXCEPT !.ranWith = [file |-> r.inputFile, opts |-> r.options]]
    IN  IF r2.exc THEN Settle(r2)
        ELSE IF jsonContent = Missing
        THEN applyResult(r3, env, thr, r2.started,
                         Content("enoent", 0, 0, <<>>, r.inputFile), TRUE)
        ELSE IF env.tmpdir # "ok"
        THEN applyResult(unlinkTemp(writeTemp(r3, r2.started, env), r2.started),
                         env, thr, r2.started,
                         Content("enospc", 0, 0, <<>>, r.inputFile), TRUE)
        ELSE [writeTemp(r2, r2.started, env) EXCEPT
                 !.inflight = @ \cup {Snapshot(r2, env, jsonContent)}]

\* Mutant: requestUpdate without the test of updating.
requestUpdateUnguarded(r, env, thr) ==
    LET r1 == [r EXCEPT !.needUpdate = TRUE, !.burst = @ + 1]
        r2 == updateLoadingIndicatorState(r1, thr)
    IN  IF r2.exc THEN r2 ELSE runUpdate(r2, env, thr)

\* Mutant: requestUpdate that forgets the request when an update is running.
requestUpdateDropping(r, env, thr) ==
    LET r1 == [r EXCEPT !.needUpdate = ~r.updating, !.burst = @ + 1]
        r2 == updateLoadingIndicatorState(r1, thr)
    IN  IF r2.exc THEN r2
        ELSE IF ~r2.updating THEN runUpdate(r2, env, thr)
        ELSE r2

\* Mutant: requestUpdate that puts the placeholder back.
requestUpdateClearing(r, env, thr) ==
    LET r1 == [r EXCEPT !.needUpdate = TRUE, !.burst = @ + 1,
                        !.previewState = [content |-> LoadingContent,
                                          type |-> PreviewType.Placeholder]]
        r2 == updateLoadingIndicatorState(r1, thr)
    IN  IF r2.exc THEN r2
        ELSE IF ~r2.updating THEN runUpdate(r2, env, thr)
        ELSE r2

requestUpdate(r, env, thr) ==
    LET r1 == [r EXCEPT !.needUpdate = TRUE, !.burst = @ + 1]
        r2 == updateLoadingIndicatorState(r1, thr)
    IN  IF r2.exc THEN r2
        ELSE IF ~r2.updating THEN runUpdate(r2, env, thr)
        ELSE r2

\* Mutant: an updateWebview that calls runUpdate itself.
updateWebviewRunning(r, env, thr) ==
    LET r1 == setWebviewContent(r, thr)
    IN  IF r1.exc THEN r1 ELSE runUpdate(r1, env, thr)

updateWebview(r, env, thr) ==
    LET r1 == setWebviewContent(r, thr)
    IN  IF r1.exc THEN r1 ELSE requestUpdate(r1, env, thr)

\* Mutant: an evaluator that takes the options as they are when it returns.
executeJqResultLateOptions(r, inv, outcome) ==
    IF outcome = "stdout"
    THEN Content("stdout", inv.filter, inv.input, r.options, <<>>)
    ELSE Content("diagnostic", inv.filter, inv.input, r.options, r.inputFile)

\* What executeJq returns or throws for the invocation inv, given what the
\* evaluator process did.
executeJqResult(r, inv, outcome) ==
    IF outcome = "stdout"
    THEN Content("stdout", inv.filter, inv.input, inv.opts, <<>>)
    ELSE Content("diagnostic", inv.filter, inv.input, inv.opts, r.inputFile)

\* runUpdate from the return of its await to its end.
resumeUpdate(r, env, thr, inv, outcome) ==
    LET r1 == unlinkTemp([r EXCEPT !.inflight = @ \ {inv},
                                   !.ranWith = [file |-> inv.file, opts |-> inv.opts]],
                         inv.id)
    IN  applyResult(r1, env, thr, inv.id,
                    executeJqResult(r, inv, outcome), outcome # "stdout")

\* ------------------------------------------------------------ webview script
ToggleOrder == <<"-R", "-r", "-c", "-n", "-s", "-S">>
UserFlags == {ToggleOrder[i] : i \in 1..NToggle}

\* The dropdown items carrying the class 'selected', in document order.
SelectedItems(options) == SelectSeq(Catalog, LAMBDA v : v \in Range(options))

\* Mutant: a click that pushes the value without looking at the class of the
\* item.
ToggleMessageAlwaysPush(options, v) == Append(SelectedItems(options), v)

\* The setOptions message of a click on the dropdown item v of a page that was
\* rendered with options.  A click on the x of chip v sends the same list as a
\* click on the selected item v.
ToggleMessage(options, v) ==
    IF v \in Range(options)
    THEN Without(SelectedItems(options), v)
    ELSE Append(SelectedItems(options), v)

\* ----------------------------------------------------- executeJq's catch
\* Texts are sequences of tokens; a token is a sequence of strings: a piece of
\* text, or a path given by its segments.  includes() and replaceAll() look
\* for whole tokens.
CommandNotFound == <<"command not found">>
InstallHint ==
    << <<"jq command not found. Please install jq on your system: https://jqlang.org/download/">> >>

\* tmpFile and tmpFilter of the call.
TmpFilePath == <<"tmp", "jq-playground-1.json">>
TmpFilterPath == <<"tmp", "jq-playground-filter-2.jq">>

WsFolder == <<"ws">>
\* this.inputFile and activeEditor.document.fileName, inside and outside the
\* workspace folder; vscode.workspace.workspaceFolders, undefined or one folder.
InputPaths == {<<"ws", "d.json">>, <<"home", "t.txt">>}
FilterPaths == {<<"ws", "q.jq">>, <<"home", "q.jq">>}
WorkspaceFolders == {<<>>, <<WsFolder>>}

StartsWith(s, prefix) ==
    /\ Len(s) >= Len(prefix)
    /\ SubSeq(s, 1, Len(prefix)) = prefix

getWorkspaceRelativePath(filePath, wsFolders) ==
    IF \E i \in 1..Len(wsFolders) : StartsWith(filePath, wsFolders[i])
    THEN LET i == CHOOSE k \in 1..Len(wsFolders) :
                     /\ StartsWith(filePath, wsFolders[k])
                     /\ \A j \in 1..(k - 1) : ~StartsWith(filePath, wsFolders[j])
         IN  SubSeq(filePath, Len(wsFolders[i]) + 1, Len(filePath))
    ELSE filePath

replaceAll(text, token, by) ==
    [i \in 1..Len(text) |-> IF text[i] = token THEN by ELSE text[i]]

includes(text, token) == \E i \in 1..Len(text) : text[i] = token

\* What the shell prints, to the standard output because of 2>&1, when there
\* is no jq to run: the wording of bash, of dash, of cmd.exe.
ShellNotFound ==
    { << <<"/bin/sh: jq:">>, CommandNotFound >>,
      << <<"/bin/sh: 1: jq: not found">> >>,
      << <<"'jq' is not recognized as an internal or external command">> >> }

\* What jq prints before a non-zero exit: up to two tokens among a piece of
\* its own text, the two temporary paths, and the words 'command not found'
\* (quoted from the input or from the filter).
DiagnosticTokens == {<<"jq: error">>, TmpFilePath, TmpFilterPath, CommandNotFound}
Diagnostics ==
    {<<>>} \cup {<<t>> : t \in DiagnosticTokens}
           \cup {<<t, u>> : t \in DiagnosticTokens, u \in DiagnosticTokens}

\* error.message of a rejected execAsync: 'Command failed: ' and the command.
CommandFailed == << <<"Command failed: jq -f">>, TmpFilterPath, TmpFilePath >>

\* The rejections executeJq can catch, with what the catch block reads.
Caught ==
    [evaluator : {"absent"}, stdout : ShellNotFound, message : {CommandFailed},
     inputFile : InputPaths, fileName : FilterPaths, wsFolders : WorkspaceFolders,
     tmpFile : {TmpFilePath}, tmpFilter : {TmpFilterPath}]
    \cup
    [evaluator : {"present"}, stdout : Diagnostics, message : {CommandFailed},
     inputFile : InputPaths, fileName : FilterPaths, wsFolders : WorkspaceFolders,
     tmpFile : {TmpFilePath}, tmpFilter : {TmpFilterPath}]

NotCaught == <<>>

\* The temp-path substitutions of the catch block.
Substituted(text, c) ==
    LET jsonDisplay == getWorkspaceRelativePath(c.inputFile, c.wsFolders)
        filterDisplay == getWorkspaceRelativePath(c.fileName, c.wsFolders)
        m1 == IF jsonDisplay # <<>> THEN replaceAll(text, c.tmpFile, jsonDisplay) ELSE text
    IN  IF filterDisplay # <<>> THEN replaceAll(m1, c.tmpFilter, filterDisplay) ELSE m1

\* The catch block of executeJq: the message of the Error it throws.
executeJqCatch(c) ==
    LET m0 == IF c.stdout # <<>> THEN c.stdout ELSE c.message
        m2 == Substituted(m0, c)
    IN  IF includes(m2, CommandNotFound) THEN InstallHint ELSE m2

\* -------------------------------------------------- executeJq, as a whole
\* Other names that crypto.randomBytes can give the two files of a call.
TmpFilePath2 == <<"tmp", "jq-playground-3.json">>
TmpFilterPath2 == <<"tmp", "jq-playground-filter-4.jq">>
TmpNames ==
    {[tmpFile |-> TmpFilePath, tmpFilter |-> TmpFilterPath],
     [tmpFile |-> TmpFilePath2, tmpFilter |-> TmpFilterPath2]}

\* The text t, which names the two files as TmpFilePath and TmpFilterPath, as
\* it reads when their names are n.
Named(t, n) == replaceAll(replaceAll(t, TmpFilePath, n.tmpFile), TmpFilterPath, n.tmpFilter)

\* The calls of executeJq.  The evaluator is a function of its command line
\* and of the two files: for one filter text, input content and option list,
\* exit is its exit status and prints what it prints when the files are
\* named TmpFilePath and TmpFilterPath (input_filename, or 'at <file>:<line>'
\* in a diagnostic, print the path of the input file).
Calls ==
    [exit : {0, 1}, prints : Diagnostics, names : TmpNames,
     inputFile : InputPaths, fileName : FilterPaths, wsFolders : WorkspaceFolders]

\* executeJq and the previewState runUpdate makes of what it returns or throws.
\* (stdout.trim() takes nothing from these texts.)
executeJq(e) ==
    LET stdout == Named(e.prints, e.names)
    IN  IF e.exit = 0
        THEN [type |-> PreviewType.Result, content |-> stdout]
        ELSE [type |-> PreviewType.Error,
              content |-> executeJqCatch(
                  [evaluator |-> "present", stdout |-> stdout,
                   message |-> Named(CommandFailed, e.names),
                   inputFile |-> e.inputFile, fileName |-> e.fileName,
                   wsFolders |-> e.wsFolders,
                   tmpFile |-> e.names.tmpFile, tmpFilter |-> e.names.tmpFilter])]

\* ------------------------------------------------ escapeHtml, highlightJson
\* (highlightJson and its use are in the listing of extension.ts in README.md.)
\* Here a text is a sequence of characters.
Digits == {"0", "1", "2", "3", "4", "5", "6", "7", "8", "9"}
Letters ==
    {"a", "b", "c", "d", "e", "f", "g", "h", "i", "j", "k", "l", "m",
     "n", "o", "p", "q", "r", "s", "t", "u", "v", "w", "x", "y", "z",
     "A", "B", "C", "D", "E", "F", "G", "H", "I", "J", "K", "L", "M",
     "N", "O", "P", "Q", "R", "S", "T", "U", "V", "W", "X", "Y", "Z"}
\* \w, \s, and the line terminators that . does not match.
IsWord(c) == c \in Digits \cup Letters \cup {"_"}
IsSpace(c) == c \in {" ", "\t", "\n", "\r"}
LineTerminator(c) == c \in {"\n", "\r"}

RECURSIVE Flatten(_)
Flatten(ss) == IF ss = <<>> THEN <<>> ELSE Head(ss) \o Flatten(Tail(ss))

\* t occurs in s at position i; t occurs in s.
OccursAt(s, i, t) == i + Len(t) - 1 <= Len(s) /\ SubSeq(s, i, i + Len(t) - 1) = t
Occurs(s, t) == \E i \in 1..Len(s) : OccursAt(s, i, t)

\* \b between the characters i - 1 and i of s.
WordBoundary(s, i) ==
    (i > 1 /\ i - 1 <= Len(s) /\ IsWord(s[i - 1])) # (i <= Len(s) /\ IsWord(s[i]))

Amp == <<"&", "a", "m", "p", ";">>
Lt == <<"&", "l", "t", ";">>
Gt == <<"&", "g", "t", ";">>
Quot == <<"&", "q", "u", "o", "t", ";">>
Apos == <<"&", "#", "0", "3", "9", ";">>

\* The map of escapeHtml.
EscapeChar(c) ==
    CASE c = "&" -> Amp
      [] c = "<" -> Lt
      [] c = ">" -> Gt
      [] c = "\"" -> Quot
      [] c = "'" -> Apos
      [] OTHER -> <<c>>

escapeHtml(t) == Flatten([i \in 1..Len(t) |-> EscapeChar(t[i])])

HljsAttr == <<"h", "l", "j", "s", "-", "a", "t", "t", "r">>
HljsString == <<"h", "l", "j", "s", "-", "s", "t", "r", "i", "n", "g">>
HljsNumber == <<"h", "l", "j", "s", "-", "n", "u", "m", "b", "e", "r">>
HljsBoolean == <<"h", "l", "j", "s", "-", "b", "o", "o", "l", "e", "a", "n">>
HljsNull == <<"h", "l", "j", "s", "-", "n", "u", "l", "l">>
HljsClasses == {HljsAttr, HljsString, HljsNumber, HljsBoolean, HljsNull}

\* <span class="cls"> and </span>
SpanOpen(cls) ==
    <<"<", "s", "p", "a", "n", " ", "c", "l", "a", "s", "s", "=", "\"">> \o cls \o <<"\"", ">">>
SpanClose == <<"<", "/", "s", "p", "a", "n", ">">>
Span(cls, body) == SpanOpen(cls) \o body \o SpanClose

\* (?:\\.|[^"\\])* from position j: the position after what it takes.  The
\* two alternatives exclude each other, so a shorter repetition never lets
\* the closing quote match.
RECURSIVE StringBody(_, _)
StringBody(line, j) ==
    IF j > Len(line) THEN j
    ELSE IF line[j] = "\\"
         THEN IF j + 1 <= Len(line) /\ ~LineTerminator(line[j + 1])
              THEN StringBody(line, j + 2)
              ELSE j
    ELSE IF line[j] = "\"" THEN j
    ELSE StringBody(line, j + 1)

\* stringRE at position i: the position of the closing quote, or 0.
StringEnd(line, i) ==
    IF line[i] # "\"" THEN 0
    ELSE LET j == StringBody(line, i + 1)
         IN  IF j <= Len(line) /\ line[j] = "\"" THEN j ELSE 0

RECURSIVE SkipSpace(_, _)
SkipSpace(line, j) ==
    IF j <= Len(line) /\ IsSpace(line[j]) THEN SkipSpace(line, j + 1) ELSE j

\* keyRE at position i: the position of the colon, or 0.
KeyEnd(line, i) ==
    LET e == StringEnd(line, i)
        k == SkipSpace(line, e + 1)
    IN  IF e # 0 /\ k <= Len(line) /\ line[k] = ":" THEN k ELSE 0

\* \d+ from position j: the position of its last digit, or 0.
RECURSIVE DigitsEnd(_, _)
DigitsEnd(line, j) ==
    IF j > Len(line) \/ line[j] \notin Digits THEN 0
    ELSE IF j + 1 <= Len(line) /\ line[j + 1] \in Digits THEN DigitsEnd(line, j + 1)
    ELSE j

\* (?:\.\d+)? and (?:[eE][+-]?\d+)? after position p: the last position of
\* the part, or 0 if it does not match there.
FractionEnd(line, p) ==
    IF p + 1 <= Len(line) /\ line[p + 1] = "." THEN DigitsEnd(line, p + 2) ELSE 0
ExponentEnd(line, p) ==
    IF p + 1 <= Len(line) /\ line[p + 1] \in {"e", "E"}
    THEN IF p + 2 <= Len(line) /\ line[p + 2] \in {"+", "-"}
         THEN DigitsEnd(line, p + 3)
         ELSE DigitsEnd(line, p + 2)
    ELSE 0

\* numberRE at position i: the last position of the match, or 0.  The optional
\* parts are tried present before absent.
NumberEnd(line, i) ==
    LET d == IF line[i] = "-" THEN i + 1 ELSE i
        n == DigitsEnd(line, d)
        f == IF n = 0 THEN 0 ELSE FractionEnd(line, n)
        fe == IF f = 0 THEN 0 ELSE ExponentEnd(line, f)
        e == IF n = 0 THEN 0 ELSE ExponentEnd(line, n)
        Ends(p) == p # 0 /\ WordBoundary(line, p + 1)
    IN  IF n = 0 \/ ~WordBoundary(line, d) THEN 0
        ELSE IF Ends(fe) THEN fe
        ELSE IF Ends(f) THEN f
        ELSE IF Ends(e) THEN e
        ELSE IF Ends(n) THEN n
        ELSE 0

\* \bword\b at position i: the last position of the match, or 0.
WordEnd(line, i, word) ==
    IF /\ OccursAt(line, i, word)
       /\ WordBoundary(line, i)
       /\ WordBoundary(line, i + Len(word))
    THEN i + Len(word) - 1
    ELSE 0

True == <<"t", "r", "u", "e">>
False == <<"f", "a", "l", "s", "e">>
Null == <<"n", "u", "l", "l">>

\* The least position of a non-empty set of positions.
First(positions) == CHOOSE j \in positions : \A k \in positions : j <= k

\* line.replace(keyRE, ...) from position i on: up to the leftmost match, the
\* replacement of the match, and the same from the position after it.
RECURSIVE replaceKeys(_, _)
replaceKeys(line, i) ==
    LET matches == {j \in i..Len(line) : KeyEnd(line, j) # 0}
        j == First(matches)
        k == KeyEnd(line, j)
    IN  IF matches = {} THEN SubSeq(line, i, Len(line))
        ELSE SubSeq(line, i, j - 1)
                \o Span(HljsAttr, escapeHtml(SubSeq(line, j, k - 1))) \o <<":">>
                \o replaceKeys(line, k + 1)

\* line.replace(stringRE, ...) from position i on.
RECURSIVE replaceStrings(_, _)
replaceStrings(line, i) ==
    LET matches == {j \in i..Len(line) : StringEnd(line, j) # 0}
        j == First(matches)
        e == StringEnd(line, j)
        matched == SubSeq(line, j, e)
    IN  IF matches = {} THEN SubSeq(line, i, Len(line))
        ELSE SubSeq(line, i, j - 1)
                \o (IF Occurs(matched, HljsAttr) THEN matched
                    ELSE Span(HljsString, escapeHtml(matched)))
                \o replaceStrings(line, e + 1)

\* line.replace(numberRE, ...) from position i on.
RECURSIVE replaceNumbers(_, _)
replaceNumbers(line, i) ==
    LET matches == {j \in i..Len(line) : NumberEnd(line, j) # 0}
        j == First(matches)
        e == NumberEnd(line, j)
    IN  IF matches = {} THEN SubSeq(line, i, Len(line))
        ELSE SubSeq(line, i, j - 1)
                \o Span(HljsNumber, SubSeq(line, j, e))
                \o replaceNumbers(line, e + 1)

\* booleanRE at position i: the last position of the match, or 0.
BooleanEnd(line, i) ==
    IF WordEnd(line, i, True) # 0 THEN WordEnd(line, i, True)
    ELSE WordEnd(line, i, False)

\* line.replace(booleanRE, ...) from position i on.
RECURSIVE replaceBooleans(_, _)
replaceBooleans(line, i) ==
    LET matches == {j \in i..Len(line) : BooleanEnd(line, j) # 0}
        j == First(matches)
        e == BooleanEnd(line, j)
    IN  IF matches = {} THEN SubSeq(line, i, Len(line))
        ELSE SubSeq(line, i, j - 1)
                \o Span(HljsBoolean, SubSeq(line, j, e))
                \o replaceBooleans(line, e + 1)

\* line.replace(nullRE, ...) from position i on.
RECURSIVE replaceNulls(_, _)
replaceNulls(line, i) ==
    LET matches == {j \in i..Len(line) : WordEnd(line, j, Null) # 0}
        j == First(matches)
        e == WordEnd(line, j, Null)
    IN  IF matches = {} THEN SubSeq(line, i, Len(line))
        ELSE SubSeq(line, i, j - 1)
                \o Span(HljsNull, SubSeq(line, j, e))
                \o replaceNulls(line, e + 1)

highlightLine(line) ==
    replaceNulls(replaceBooleans(replaceNumbers(
        replaceStrings(replaceKeys(line, 1), 1), 1), 1), 1)

\* json.split(/\r?\n/): the lines of json from position i on, cur being the
\* part of the current line already read.
RECURSIVE split(_, _, _)
split(json, i, cur) ==
    IF i > Len(json) THEN <<cur>>
    ELSE IF json[i] = "\n" THEN <<cur>> \o split(json, i + 1, <<>>)
    ELSE IF json[i] = "\r" /\ i + 1 <= Len(json) /\ json[i + 1] = "\n"
         THEN <<cur>> \o split(json, i + 2, <<>>)
    ELSE split(json, i + 1, Append(cur, json[i]))

\* lines.join('\n')
RECURSIVE join(_)
join(lines) ==
    IF Len(lines) = 1 THEN lines[1]
    ELSE lines[1] \o <<"\n">> \o join(Tail(lines))

highlightJson(json) ==
    LET lines == split(json, 1, <<>>)
    IN  join([i \in 1..Len(lines) |-> highlightLine(lines[i])])

\* ---------------------------------------------- the page, as the webview
\* reads it.  A tag runs from a < that a letter or / follows to the next >;
\* a character reference is decoded where it stands whole.
References == {<<Amp, "&">>, <<Lt, "<">>, <<Gt, ">">>, <<Quot, "\"">>, <<Apos, "'">>}

TagStart(h, i) ==
    /\ h[i] = "<"
    /\ i + 1 <= Len(h)
    /\ h[i + 1] \in Letters \cup {"/"}

\* The position of the > that ends the tag starting at i (the end of the
\* markup if there is none).
TagEnd(h, i) ==
    LET ends == {j \in i..Len(h) : h[j] = ">"}
    IN  IF ends = {} THEN Len(h) ELSE First(ends)

ReferenceAt(h, i) == \E ref \in References : OccursAt(h, i, ref[1])

\* The tags of the markup h from position i on.
RECURSIVE Tags(_, _)
Tags(h, i) ==
    LET starts == {j \in i..Len(h) : TagStart(h, j)}
        j == First(starts)
    IN  IF starts = {} THEN {}
        ELSE {SubSeq(h, j, TagEnd(h, j))} \cup Tags(h, TagEnd(h, j) + 1)

\* innerText of an element whose content is the markup h, from position i on:
\* the text up to the next tag or reference, nothing for a tag, the character
\* of a reference, and the same from the position after it.
RECURSIVE innerText(_, _)
innerText(h, i) ==
    LET stops == {j \in i..Len(h) : TagStart(h, j) \/ ReferenceAt(h, j)}
        j == First(stops)
        ref == CHOOSE x \in References : OccursAt(h, j, x[1])
    IN  IF stops = {} THEN SubSeq(h, i, Len(h))
        ELSE SubSeq(h, i, j - 1)
                \o (IF TagStart(h, j) THEN innerText(h, TagEnd(h, j) + 1)
                    ELSE <<ref[2]>> \o innerText(h, j + Len(ref[1])))

\* The tags highlightJson inserts.
TintTags == {SpanOpen(cls) : cls \in HljsClasses} \cup {SpanClose}

\* The markup h without the tags highlightJson inserts, from position i on.
RECURSIVE StripTint(_, _)
StripTint(h, i) ==
    LET stops == {j \in i..Len(h) : \E t \in TintTags : OccursAt(h, j, t)}
        j == First(stops)
        t == CHOOSE x \in TintTags : OccursAt(h, j, x)
    IN  IF stops = {} THEN SubSeq(h, i, Len(h))
        ELSE SubSeq(h, i, j - 1) \o StripTint(h, j + Len(t))

\* ------------------------------------------------- texts that are embedded
\* What a JSON string can hold between its quotes, in pieces: an apostrophe,
\* an element, an ampersand, a class name of the tinting, a digit, true,
\* null, a letter, an escaped quote.
Pieces ==
    {<<"'">>, <<"<", "b", ">">>, <<"&">>, HljsAttr, <<"1">>, True, Null, <<"a">>,
     <<"\\", "\"">>}

RECURSIVE Bodies(_)
Bodies(n) ==
    IF n = 0 THEN {<<>>}
    ELSE Bodies(n - 1) \cup {b \o p : b \in Bodies(n - 1), p \in Pieces}

Quoted(body) == <<"\"">> \o body \o <<"\"">>

\* The texts jq prints: a string, a number, a boolean, null, and an object
\* of one member on one line or on three.
Texts ==
    {Quoted(b) : b \in Bodies(MaxPieces)}
    \cup {<<"-", "1", ".", "5", "e", "1">>, <<"1">>, True, False, Null}
    \cup {<<"{">> \o Quoted(k) \o <<":">> \o Quoted(b) \o <<"}">> :
             k \in Bodies(1), b \in Bodies(MaxPieces)}
    \cup {<<"{", "\n", " ", " ">> \o Quoted(k) \o <<":", " ">> \o v \o <<"\n", "}">> :
             k \in Bodies(1), v \in {<<"1">>, True, Null} \cup {Quoted(b) : b \in Bodies(1)}}

\* ------------------------------------------------------------------ actions
Constructed == {s \in Sessions : sess[s].panel # "none"}

\* The host's answer to an access of r's panel, for one handler run.
HostRaises(r) == IF r.panel = "disposed" THEN BOOLEAN ELSE {TRUE}

CurrentEnv == Env(filterText, disk, editor)

Event ==
    /\ events < MaxEvents
    /\ events' = events + 1

\* The text an edit leaves: one that no current copy of the document holds.
Max(a, b) == IF a > b THEN a ELSE b
NextFilterText(d) == filterText[d] + 1
NextText(f) == Max(disk[f], editor[f]) + 1

\* What pickInputFile can return: a file that findFiles lists, or undefined.
Pickable == {f \in Files : disk[f] # Missing} \cup {Undefined}

\* No document was made by openTextDocument; no text is being embedded.
NoDoc == <<>>
NoText == <<>>
NotEmbedded == <<>>
NoCall == <<>>
NotReturned == <<>>

\* The state after activate.
InitHost ==
    /\ previewSessions = [d \in FilterDocs |-> 0]
    /\ sess = [s \in Sessions |-> NoSession]
    /\ openPicking = [d \in FilterDocs |-> 0]
    /\ filterText = [d \in FilterDocs |-> 0]
    /\ disk = [f \in Files |-> 0]
    /\ editor = [f \in Files |-> Closed]
    /\ events = 0
    /\ notice = "none"
    /\ tmpdir = "ok"
    /\ created = NoDoc

Init ==
    /\ InitHost
    /\ caught = NotCaught
    /\ errMsg = NotCaught
    /\ untrusted = NoText
    /\ embedded = NotEmbedded
    /\ call = NoCall
    /\ returned = NotReturned

\* Mutant: an open command that does not look into previewSessions.
OpenPreviewAlwaysNew(ed) ==
    /\ Event
    /\ IF ed = NoEditor \/ ~EndsWith(ed, DotJq)
       THEN /\ notice' = "Please open a .jq file to use the preview"
            /\ UNCHANGED <<previewSessions, sess, openPicking>>
       ELSE /\ openPicking' = [openPicking EXCEPT ![ed] = @ + 1]
            /\ UNCHANGED <<previewSessions, sess, notice>>
    /\ UNCHANGED <<filterText, disk, editor, tmpdir, caught, errMsg, created, untrusted, embedded, call, returned>>

\* jqPlayground.openPreview up to its first await, with ed the active editor.
OpenPreview(ed) ==
    /\ Event
    /\ IF ed = NoEditor \/ ~EndsWith(ed, DotJq)
       THEN /\ notice' = "Please open a .jq file to use the preview"
            /\ UNCHANGED <<previewSessions, sess, openPicking>>
       ELSE IF previewSessions[ed] # 0
       THEN /\ sess' = [sess EXCEPT ![previewSessions[ed]] =
                            Settle(updateWebview(@, CurrentEnv, TRUE))]
            /\ UNCHANGED <<previewSessions, openPicking, notice>>
       ELSE /\ openPicking' = [openPicking EXCEPT ![ed] = @ + 1]
            /\ UNCHANGED <<previewSessions, sess, notice>>
    /\ UNCHANGED <<filterText, disk, editor, tmpdir, caught, errMsg, created, untrusted, embedded, call, returned>>

\* new JqPreviewSession(...): the field initialisers, setupWatchers and
\* setupPanelHandlers.
NewSession(docUri, inputFile, options) ==
    [NoSession EXCEPT !.panel = "open", !.docUri = docUri,
                      !.inputFile = inputFile, !.options = options,
                      !.watched = inputFile,
                      !.disposables = IF inputFile # <<>> THEN AllDisposables ELSE {}]

\* jqPlayground.openPreview from the return of pickInputFile, for the command
\* that was invoked on document d; picked is the file chosen, or Undefined.
OpenPreviewPicked(d, picked) ==
    /\ Event
    /\ openPicking[d] > 0
    /\ picked \in Pickable
    /\ openPicking' = [openPicking EXCEPT ![d] = @ - 1]
    /\ IF picked = Undefined
       THEN UNCHANGED <<previewSessions, sess>>
       ELSE /\ Cardinality(Constructed) < MaxSessions
            /\ LET id == Cardinality(Constructed) + 1
                   options == updateROption(picked, <<>>)
                   session == NewSession(d, picked, options)
               IN  /\ previewSessions' = [previewSessions EXCEPT ![d] = id]
                   /\ sess' = [sess EXCEPT ![id] =
                                   Settle(updateWebview(session, CurrentEnv, TRUE))]
    /\ UNCHANGED <<filterText, disk, editor, notice, tmpdir, caught, errMsg, created, untrusted, embedded, call, returned>>

\* The listeners of one change notification run one after the other; each
\* session that listens gets requestUpdate.
Notify(listeners, env) ==
    [s \in Sessions |->
        IF s \in listeners THEN Settle(requestUpdate(sess[s], env, TRUE)) ELSE sess[s]]

\* The sessions a notification reaches: those whose subscription is live and
\* whose test of the event passes.
QueryListeners(d) ==
    {s \in Sessions : "queryChangeDisposable" \in sess[s].disposables /\ sess[s].docUri = d}
JsonChangeListeners(f) ==
    {s \in Sessions : "jsonChangeDisposable" \in sess[s].disposables /\ sess[s].inputFile = f}
JsonWatchers(f) ==
    {s \in Sessions : "jsonWatcher" \in sess[s].disposables /\ sess[s].watched = f}

\* onDidChangeTextDocument for the filter document d.
EditFilter(d) ==
    /\ Event
    /\ filterText' = [filterText EXCEPT ![d] = NextFilterText(d)]
    /\ sess' = Notify(QueryListeners(d),
                      Env(filterText', disk, editor))
    /\ UNCHANGED <<previewSessions, openPicking, disk, editor, notice, tmpdir, caught, errMsg, created, untrusted, embedded, call, returned>>

\* The user opens the workspace file f in an editor.
OpenInputDocument(f) ==
    /\ Event
    /\ editor[f] = Closed
    /\ disk[f] # Missing
    /\ editor' = [editor EXCEPT ![f] = disk[f]]
    /\ UNCHANGED <<previewSessions, sess, openPicking, filterText, disk, notice, tmpdir,
                 caught, errMsg, created, untrusted, embedded, call, returned>>

\* onDidChangeTextDocument for the open document of file f.
EditInputDocument(f) ==
    /\ Event
    /\ editor[f] # Closed
    /\ editor' = [editor EXCEPT ![f] = NextText(f)]
    /\ sess' = Notify(JsonChangeListeners(f),
                      Env(filterText, disk, editor'))
    /\ UNCHANGED <<previewSessions, openPicking, filterText, disk, notice, tmpdir, caught, errMsg, created, untrusted, embedded, call, returned>>

\* The open document of f is saved: the file is written, and
\* jsonWatcher.onDidChange fires if it existed.
SaveInputDocument(f) ==
    /\ Event
    /\ editor[f] # Closed
    /\ editor[f] # disk[f]
    /\ disk' = [disk EXCEPT ![f] = editor[f]]
    /\ sess' = IF disk[f] = Missing THEN sess
               ELSE Notify(JsonWatchers(f),
                           Env(filterText, disk', editor))
    /\ UNCHANGED <<previewSessions, openPicking, filterText, editor, notice, tmpdir,
                 caught, errMsg, created, untrusted, embedded, call, returned>>

\* A document without unsaved changes is closed.
CloseInputDocument(f) ==
    /\ Event
    /\ editor[f] # Closed
    /\ editor[f] = disk[f]
    /\ editor' = [editor EXCEPT ![f] = Closed]
    /\ UNCHANGED <<previewSessions, sess, openPicking, filterText, disk, notice, tmpdir,
                 caught, errMsg, created, untrusted, embedded, call, returned>>

\* The file f is written on disk; jsonWatcher.onDidChange fires for a file that
\* existed (nobody listens to onDidCreate).
WriteFile(f) ==
    /\ Event
    /\ disk' = [disk EXCEPT ![f] = NextText(f)]
    /\ sess' = IF disk[f] = Missing THEN sess
               ELSE Notify(JsonWatchers(f),
                           Env(filterText, disk', editor))
    /\ UNCHANGED <<previewSessions, openPicking, filterText, editor, notice, tmpdir,
                 caught, errMsg, created, untrusted, embedded, call, returned>>

\* The file f is deleted on disk: jsonWatcher.onDidDelete.
DeleteFile(f) ==
    /\ Event
    /\ disk[f] # Missing
    /\ disk' = [disk EXCEPT ![f] = Missing]
    /\ sess' = [s \in Sessions |->
                  IF s \in JsonWatchers(f)
                  THEN [sess[s] EXCEPT !.html = DeletedWarning, !.indicator = FALSE]
                  ELSE sess[s]]
    /\ UNCHANGED <<previewSessions, openPicking, filterText, editor, notice, tmpdir,
                 caught, errMsg, created, untrusted, embedded, call, returned>>

\* Mutant: a setOptions handler that applies the raw-input policy.
setOptionsWithPolicy(r, options, env, thr) ==
    updateWebview([r EXCEPT !.options = updateROption(r.inputFile, options)], env, thr)

\* Mutant: a setOptions handler that re-renders the page and requests nothing.
setOptionsNoRequest(r, options, env, thr) ==
    setWebviewContent([r EXCEPT !.options = options], thr)

\* The assignments of the setOptions handler.
setOptions(r, options, env, thr) ==
    updateWebview([r EXCEPT !.options = options], env, thr)

\* onDidReceiveMessage, type setOptions: the page of s sends the list its
\* script computes for a click on flag v.
SetOptions(s, v) ==
    /\ Event
    /\ sess[s].panel = "open"
    /\ sess[s].html.kind = "page"
    /\ sess' = [sess EXCEPT ![s] =
                  Settle(setOptions(@, ToggleMessage(@.html.options, v), CurrentEnv, TRUE))]
    /\ UNCHANGED <<previewSessions, openPicking, filterText, disk, editor, notice,
                 tmpdir, caught, errMsg, created, untrusted, embedded, call, returned>>

\* onDidReceiveMessage, type chooseInput, up to its await.
ChooseInput(s) ==
    /\ Event
    /\ sess[s].panel = "open"
    /\ sess[s].html.kind = "page"
    /\ sess' = [sess EXCEPT ![s].choosing = @ + 1]
    /\ UNCHANGED <<previewSessions, openPicking, filterText, disk, editor, notice,
                 tmpdir, caught, errMsg, created, untrusted, embedded, call, returned>>

\* The assignments of the chooseInput handler once a file was picked.
setInputFile(r, newInput, env, thr) ==
    LET r1 == [r EXCEPT !.inputFile = newInput,
                        !.options = updateROption(newInput, r.options)]
    IN  updateWebview(r1, env, thr)

\* Mutant: a chooseInput handler that refreshes the preview when nothing was
\* picked.
ChooseInputPickedUnguarded(s, picked) ==
    /\ Event
    /\ sess[s].choosing > 0
    /\ picked \in Pickable
    /\ \E thr \in HostRaises(sess[s]) :
         LET r == [sess[s] EXCEPT !.choosing = @ - 1]
         IN  sess' = [sess EXCEPT ![s] =
                        IF picked = Undefined THEN Settle(updateWebview(r, CurrentEnv, thr))
                        ELSE Settle(setInputFile(r, picked, CurrentEnv, thr))]
    /\ UNCHANGED <<previewSessions, openPicking, filterText, disk, editor, notice,
                   tmpdir, caught, errMsg, created, untrusted, embedded, call, returned>>

\* onDidReceiveMessage, type chooseInput, from the return of pickInputFile.
ChooseInputPicked(s, picked) ==
    /\ Event
    /\ sess[s].choosing > 0
    /\ picked \in Pickable
    /\ \E thr \in HostRaises(sess[s]) :
         LET r == [sess[s] EXCEPT !.choosing = @ - 1]
         IN  sess' = [sess EXCEPT ![s] =
                        IF picked = Undefined THEN r
                        ELSE Settle(setInputFile(r, picked, CurrentEnv, thr))]
    /\ UNCHANGED <<previewSessions, openPicking, filterText, disk, editor, notice,
                 tmpdir, caught, errMsg, created, untrusted, embedded, call, returned>>

\* resultPane.innerText of the page: the text of the body it displays, which is
\* previewState.content as rendered tinted or plain.
DisplayedText(page) ==
    [of |-> page.content,
     tinted |-> page.type = PreviewType.Result /\ "-r" \notin Range(page.options)]

\* The copy and open buttons are part of the page.
ResultActionsOffered(page) == page.kind = "page" /\ page.type = PreviewType.Result

\* Mutant: a handler that takes the raw-input flag for the raw-output flag.
openResultDocRawInput(r, content) ==
    [content |-> content,
     language |-> IF "-R" \in Range(r.options) THEN "undefined" ELSE "json"]

\* The argument of openTextDocument in the openResultDoc handler.
openResultDoc(r, content) ==
    [content |-> content,
     language |-> IF "-r" \in Range(r.options) THEN "undefined" ELSE "json"]

\* onDidReceiveMessage, type openResultDoc: the open button of the page of s
\* was clicked.  (What follows the await only shows the document.)
OpenResultDoc(s) ==
    /\ Event
    /\ sess[s].panel = "open"
    /\ ResultActionsOffered(sess[s].html)
    /\ created' = openResultDoc(sess[s], DisplayedText(sess[s].html))
    /\ UNCHANGED <<previewSessions, sess, openPicking, filterText, disk, editor, notice,
                   tmpdir, caught, errMsg, untrusted, embedded, call, returned>>

\* The temporary directory fills up, or space is freed in it.
SetTmpDir(v) ==
    /\ Event
    /\ tmpdir # v
    /\ tmpdir' = v
    /\ UNCHANGED <<previewSessions, sess, openPicking, filterText, disk, editor, notice,
                 caught, errMsg, created, untrusted, embedded, call, returned>>

\* Mutant: a dispose that leaves the file watcher subscribed.
disposeKeepingWatcher(r) == [r EXCEPT !.disposables = {"jsonWatcher"}]

\* JqPreviewSession.dispose
dispose(r) == [r EXCEPT !.disposables = {}]

\* Mutant: an onDispose callback that leaves the entry in previewSessions.
ClosePanelKeepingEntry(s) ==
    /\ Event
    /\ sess[s].panel = "open"
    /\ sess' = [sess EXCEPT ![s] = dispose([@ EXCEPT !.panel = "disposed"])]
    /\ UNCHANGED <<previewSessions, openPicking, filterText, disk, editor, notice, tmpdir,
                   caught, errMsg, created, untrusted, embedded, call, returned>>

\* panel.onDidDispose: the user closes the panel of s.
ClosePanel(s) ==
    /\ Event
    /\ sess[s].panel = "open"
    /\ sess' = [sess EXCEPT ![s] = dispose([@ EXCEPT !.panel = "disposed"])]
    /\ previewSessions' = [previewSessions EXCEPT ![sess[s].docUri] = 0]
    /\ UNCHANGED <<openPicking, filterText, disk, editor, notice, tmpdir, caught, errMsg, created, untrusted, embedded, call, returned>>

\* Mutant: a return of the evaluator after which the input file is unlinked
\* with the temporary files.
JqExitUnlinksInput(s, inv, outcome) ==
    /\ inv \in sess[s].inflight
    /\ \E thr \in HostRaises(sess[s]) :
         sess' = [sess EXCEPT ![s] = resumeUpdate(@, CurrentEnv, thr, inv, outcome)]
    /\ disk' = [disk EXCEPT ![sess[s].inputFile] = Missing]
    /\ UNCHANGED <<previewSessions, openPicking, filterText, editor, events,
                   notice, tmpdir, caught, errMsg, created, untrusted, embedded, call, returned>>

\* The evaluator process of invocation inv ends: execAsync settles.
JqExit(s, inv, outcome) ==
    /\ inv \in sess[s].inflight
    /\ \E thr \in HostRaises(sess[s]) :
         sess' = [sess EXCEPT ![s] = resumeUpdate(@, CurrentEnv, thr, inv, outcome)]
    /\ UNCHANGED <<previewSessions, openPicking, filterText, disk, editor, events,
                 notice, tmpdir, caught, errMsg, created, untrusted, embedded, call, returned>>

\* The callback of the 100 ms timer set by updateLoadingIndicatorState.
loadingTimeoutCallback(r, thr) ==
    LET r0 == [r EXCEPT !.timers = @ - 1]
        r1 == IF r.needUpdate \/ r.updating
              THEN LET r2 == setLoadingIndicator(r0, TRUE, thr)
                   IN  IF r2.exc THEN r2 ELSE [r2 EXCEPT !.lastLoadingState = TRUE]
              ELSE r0
    IN  IF r1.exc THEN r1 ELSE [r1 EXCEPT !.loadingIndicatorTimeout = FALSE]

LoadingTimeout(s) ==
    /\ sess[s].timers > 0
    /\ \E thr \in HostRaises(sess[s]) :
         sess' = [sess EXCEPT ![s] = Settle(loadingTimeoutCallback(@, thr))]
    /\ UNCHANGED <<previewSessions, openPicking, filterText, disk, editor, events,
                 notice, tmpdir, caught, errMsg, created, untrusted, embedded, call, returned>>

Next ==
    \/ \E ed \in Editors : OpenPreview(ed)
    \/ \E d \in FilterDocs, p \in Files \cup {Undefined} : OpenPreviewPicked(d, p)
    \/ \E d \in FilterDocs : EditFilter(d)
    \/ \E f \in Files : OpenInputDocument(f)
    \/ \E f \in Files : EditInputDocument(f)
    \/ \E f \in Files : SaveInputDocument(f)
    \/ \E f \in Files : CloseInputDocument(f)
    \/ \E f \in Files : WriteFile(f)
    \/ \E f \in Files : DeleteFile(f)
    \/ \E s \in Sessions, v \in UserFlags : SetOptions(s, v)
    \/ \E s \in Sessions : ChooseInput(s)
    \/ \E s \in Sessions, p \in Files \cup {Undefined} : ChooseInputPicked(s, p)
    \/ \E s \in Sessions : ClosePanel(s)
    \/ \E v \in {"ok", "full"} : SetTmpDir(v)
    \/ \E s \in Sessions : \E inv \in sess[s].inflight, outcome \in JqOutcomes :
          JqExit(s, inv, outcome)
    \/ \E s \in Sessions : LoadingTimeout(s)

Spec == Init /\ [][Next]_vars

\* The version of the extension listed in README.md: the same handlers, and
\* the openResultDoc message.
NextReadme ==
    \/ Next
    \/ \E s \in Sessions : OpenResultDoc(s)

SpecReadme == Init /\ [][NextReadme]_vars

\* Two previews are open side by side and have displayed their first Result:
\* the state after two open commands, a pick of t.txt for each and the return
\* of both evaluators.  A further open command, run before the first pick,
\* may still be suspended at its picker.
FirstResult(r, env) ==
    LET r1 == Settle(updateWebview(r, env, TRUE))
    IN  resumeUpdate(r1, env, TRUE, CHOOSE inv \in r1.inflight : TRUE, "stdout")

InitPair ==
    /\ previewSessions = [d \in FilterDocs |-> 2]
    /\ openPicking \in [FilterDocs -> {0, 1}]
    /\ filterText = [d \in FilterDocs |-> 0]
    /\ disk = [f \in Files |-> 0]
    /\ editor = [f \in Files |-> Closed]
    /\ events = MaxEvents - PairEvents
    /\ notice = "none"
    /\ tmpdir = "ok"
    /\ created = NoDoc
    /\ sess = [s \in Sessions |->
                 IF s <= 2
                 THEN FirstResult(NewSession(QJq, TTxt, updateROption(TTxt, <<>>)), CurrentEnv)
                 ELSE NoSession]
    /\ caught = NotCaught
    /\ errMsg = NotCaught
    /\ untrusted = NoText
    /\ embedded = NotEmbedded
    /\ call = NoCall
    /\ returned = NotReturned

SpecPair == InitPair /\ [][Next]_vars

\* executeJq's catch block alone, on each rejection it can catch.
InitCatch ==
    /\ InitHost
    /\ caught \in Caught
    /\ errMsg = NotCaught
    /\ untrusted = NoText
    /\ embedded = NotEmbedded
    /\ call = NoCall
    /\ returned = NotReturned

Catch ==
    /\ errMsg = NotCaught
    /\ errMsg' = executeJqCatch(caught)
    /\ UNCHANGED <<previewSessions, sess, openPicking, filterText, disk, editor, events,
                   notice, tmpdir, caught, created, untrusted, embedded, call, returned>>

SpecCatch == InitCatch /\ [][Catch]_vars

\* executeJq alone, on each call.
InitExecuteJq ==
    /\ InitHost
    /\ caught = NotCaught
    /\ errMsg = NotCaught
    /\ untrusted = NoText
    /\ embedded = NotEmbedded
    /\ call \in Calls
    /\ returned = NotReturned

ExecuteJq ==
    /\ returned = NotReturned
    /\ returned' = executeJq(call)
    /\ UNCHANGED <<previewSessions, sess, openPicking, filterText, disk, editor, events,
                   notice, tmpdir, caught, errMsg, created, untrusted, embedded, call>>

SpecExecuteJq == InitExecuteJq /\ [][ExecuteJq]_vars

\* getWebviewContent's embedding of previewState.content alone, on each text.
InitEmbed ==
    /\ InitHost
    /\ caught = NotCaught
    /\ errMsg = NotCaught
    /\ untrusted \in Texts
    /\ embedded = NotEmbedded
    /\ call = NoCall
    /\ returned = NotReturned

\* A Result, without -r among the options.
EmbedHighlighted ==
    /\ embedded = NotEmbedded
    /\ embedded' = [mode |-> "tinted", markup |-> highlightJson(untrusted)]
    /\ UNCHANGED <<previewSessions, sess, openPicking, filterText, disk, editor, events,
                   notice, tmpdir, caught, errMsg, created, untrusted, call, returned>>

\* An Error, or a Result with -r among the options.
EmbedEscaped ==
    /\ embedded = NotEmbedded
    /\ embedded' = [mode |-> "plain", markup |-> escapeHtml(untrusted)]
    /\ UNCHANGED <<previewSessions, sess, openPicking, filterText, disk, editor, events,
                   notice, tmpdir, caught, errMsg, created, untrusted, call, returned>>

Embed == EmbedHighlighted \/ EmbedEscaped

SpecEmbed == InitEmbed /\ [][Embed]_vars

\* ================================================================ properties
Idle(r) == ~r.updating /\ ~r.needUpdate
Running(r) == r.updating /\ ~r.needUpdate
RunningWithPendingUpdate(r) == r.updating /\ r.needUpdate

\* In the step from a to b of one session: requestUpdate was called; the
\* awaited evaluator of an invocation returned.
Requested(a, b) == IF a.updating THEN b.burst = a.burst + 1 ELSE b.started > a.started
Completed(a, b) == \E inv \in a.inflight : inv \notin b.inflight

\* C1: every session has at most one evaluator invocation in flight, one is in
\* flight only while updating is true, and runUpdate is entered only when
\* updating is false or in the step in which the invocation in flight returns.
C1_SingleFlight ==
    /\ [](\A s \in Sessions :
            /\ Cardinality(sess[s].inflight) <= 1
            /\ sess[s].inflight # {} => sess[s].updating)
    /\ [][\A s \in Sessions :
            sess'[s].started # sess[s].started =>
                /\ sess'[s].started = sess[s].started + 1
                /\ ~sess[s].updating \/ Completed(sess[s], sess'[s])]_vars

\* A follow-up invocation is in flight and a further request arrived during it.
C1_Witness ==
    \E s \in Sessions :
        /\ Cardinality(sess[s].inflight) = 1
        /\ sess[s].started >= 2
        /\ sess[s].burst >= 1

\* C2: when the evaluator of a running invocation returns, runUpdate is entered
\* exactly once more if at least one requestUpdate arrived during the run
\* (however many), and not at all if none did; a requestUpdate that arrives
\* during the run enters nothing.
C2_Coalesced ==
    [][\A s \in Sessions :
         /\ Completed(sess[s], sess'[s]) =>
               sess'[s].started - sess[s].started = IF sess[s].burst >= 1 THEN 1 ELSE 0
         /\ sess[s].updating /\ ~Completed(sess[s], sess'[s]) =>
               sess'[s].started = sess[s].started]_vars

\* The follow-up of a run during which two requests arrived has returned, and
\* nothing further was started.
C2_Witness ==
    \E s \in Sessions :
        /\ sess[s].served >= 2
        /\ sess[s].started = 2
        /\ Len(sess[s].applied) = 2
        /\ Idle(sess[s])

\* C3: once a session with an open panel is Idle and shows a Result, that
\* Result is the evaluation of the current text of the filter document, of the
\* current content of the selected input file and of the current options:
\* every change was reflected.  (Stated for an input file that exists and is
\* not open in an editor: its content is the file on disk.)
C3_Reflected ==
    \A s \in Sessions :
        (/\ sess[s].panel = "open"
         /\ Idle(sess[s])
         /\ sess[s].html.kind = "page"
         /\ sess[s].previewState.type = PreviewType.Result
         /\ editor[sess[s].inputFile] = Closed
         /\ disk[sess[s].inputFile] # Missing)
        => /\ sess[s].previewState.content.filter = filterText[sess[s].docUri]
           /\ sess[s].previewState.content.input = disk[sess[s].inputFile]
           /\ sess[s].previewState.content.opts = sess[s].options

\* C4: once the panel of a session is disposed, no step modifies its
\* previewState or its page, and no handler of the session raises.
C4_DiscardedAfterDispose ==
    [][\A s \in Sessions :
         sess[s].panel = "disposed" =>
            /\ sess'[s].previewState = sess[s].previewState
            /\ sess'[s].html = sess[s].html
            /\ sess'[s].threw = sess[s].threw]_vars

\* The file f cannot be read: no open document, no file.
Unreadable(f, ed, dk) == ed[f] = Closed /\ dk[f] = Missing

\* runUpdate cannot reach the await of the evaluator process: the input file
\* cannot be read, or the temporary files cannot be written.
CannotStart(f, ed, dk, td) == Unreadable(f, ed, dk) \/ td # "ok"

\* runUpdate was entered in the step from a to b and ended in it, with the
\* Error result of the failed read or write.
FailedAtOnce(a, b) ==
    /\ Idle(b)
    /\ Len(b.applied) > Len(a.applied)
    /\ b.applied[Len(b.applied)] = b.started
    /\ b.previewState.type = PreviewType.Error
    /\ b.previewState.content.kind \in {"enoent", "enospc"}

\* The flag pair is never (false, true).
FlagsRefine == \A s \in Sessions : ~(~sess[s].updating /\ sess[s].needUpdate)

\* C5 as stated: the flag pair is never (false, true); a requestUpdate in Idle
\* enters runUpdate and leaves the session Running; one during a run leaves it
\* RunningWithPendingUpdate and enters nothing; the return of the evaluator
\* leaves it Running with runUpdate entered once more if an update was
\* pending, else Idle.
C5_ThreeStates ==
    /\ []FlagsRefine
    /\ [][\A s \in Sessions :
            LET a == sess[s]
                b == sess'[s]
            IN  /\ Idle(a) /\ Requested(a, b) =>
                      b.started = a.started + 1 /\ Running(b)
                /\ a.updating /\ Requested(a, b) =>
                      /\ RunningWithPendingUpdate(b)
                      /\ b.started = a.started
                      /\ b.inflight = a.inflight
                /\ Completed(a, b) =>
                      IF a.needUpdate
                      THEN b.started = a.started + 1 /\ Running(b)
                      ELSE b.started = a.started /\ Idle(b)]_vars

\* C5 as amended: as C5_ThreeStates, except that a runUpdate entered while the
\* input file cannot be read or the temporary files cannot be written ends
\* within the same step, with the Error result of that failure, and leaves the
\* session Idle; on a disposed panel it can instead
\* raise before the read, which leaves the session Running.
C5_ThreeStatesAmended ==
    /\ []FlagsRefine
    /\ [][\A s \in Sessions :
            LET a == sess[s]
                b == sess'[s]
                Entered == /\ b.started = a.started + 1
                           /\ IF CannotStart(b.inputFile, editor', disk', tmpdir')
                              THEN \/ FailedAtOnce(a, b)
                                   \/ b.panel = "disposed" /\ b.threw /\ Running(b)
                              ELSE Running(b)
            IN  /\ Idle(a) /\ Requested(a, b) => Entered
                /\ a.updating /\ Requested(a, b) =>
                      /\ RunningWithPendingUpdate(b)
                      /\ b.started = a.started
                      /\ b.inflight = a.inflight
                /\ Completed(a, b) =>
                      IF a.needUpdate
                      THEN Entered
                      ELSE b.started = a.started /\ Idle(b)]_vars

\* A session that was Idle with a Result got a request while its input file
\* was unreadable, and is Idle again with the Error of the read.
C5_Witness ==
    \E s \in Sessions :
        /\ sess[s].panel = "open"
        /\ Idle(sess[s])
        /\ sess[s].started >= 2
        /\ Len(sess[s].applied) = sess[s].started
        /\ sess[s].previewState.content.kind = "enoent"

\* The result of the invocation inv is what the step from a to b assigned to
\* previewState.
AppliedResultOf(inv, a, b) ==
    /\ inv \in a.inflight /\ inv \notin b.inflight
    /\ Len(b.applied) = Len(a.applied) + 1
    /\ b.previewState.content.kind \in {"stdout", "diagnostic"}

C7_StartOrder ==
    \A s \in Sessions :
        /\ Len(sess[s].applied) <= sess[s].started
        /\ \A k \in 1..Len(sess[s].applied) : sess[s].applied[k] = k

\* Three results were applied to one session.
C7_Witness ==
    \E s \in Sessions : Len(sess[s].applied) >= 3

\* C8: a session whose panel is open gets an update from an on-disk change of
\* the file f exactly when f is its selected input file.
C8_Resubscribed ==
    [][\A s \in Sessions : \A f \in Files :
         (/\ sess[s].panel = "open"
          /\ disk[f] # Missing
          /\ disk'[f] # Missing
          /\ disk'[f] # disk[f])
         => (Requested(sess[s], sess'[s]) <=> sess[s].inputFile = f)]_vars

\* The step from a to b selected the input file p for the session.
InputSelected(s, p) ==
    \/ ChooseInputPicked(s, p)
    \/ \E d \in FilterDocs : OpenPreviewPicked(d, p) /\ previewSessions'[d] = s

\* C9: when a session is opened with the input file p, or p is picked for it,
\* -R is among its options iff p does not end in .json, and every other flag is
\* among them iff it was before.
C9_RawInputPolicy ==
    [][\A s \in Sessions : \A p \in Files :
         InputSelected(s, p) =>
            /\ sess'[s].inputFile = p
            /\ "-R" \in Range(sess'[s].options) <=> ~EndsWith(p, DotJson)
            /\ \A o \in Range(Catalog) \ {"-R"} :
                  o \in Range(sess'[s].options) <=> o \in Range(sess[s].options)]_vars

\* A session opened on t.txt, with -r added by the user, now has d.json as its
\* input: -R is gone and -r is still there.
C9_Witness ==
    \E s \in Sessions :
        /\ sess[s].watched = TTxt
        /\ sess[s].inputFile = DJson
        /\ "-R" \notin Range(sess[s].options)
        /\ "-r" \in Range(sess[s].options)

\* The setOptions handler of s ran in this step, for a click on flag v: the
\* options are the list of the message, the input file is the same, and an
\* update was requested.
OptionsSet(s, v, a, b) ==
    /\ b.options = ToggleMessage(a.html.options, v)
    /\ b.inputFile = a.inputFile
    /\ b.html.kind = "page" /\ b.html.options = b.options
    /\ Requested(a, b)

\* C10 as stated: setOptions makes the options exactly the list of the message,
\* leaves the input file and previewState as they were, and enters runUpdate,
\* which leaves an invocation in flight, if the session was Idle, else records
\* a pending update.
C10_SetOptions ==
    [][\A s \in Sessions : \A v \in UserFlags :
         SetOptions(s, v) =>
            LET a == sess[s]
                b == sess'[s]
            IN  /\ OptionsSet(s, v, a, b)
                /\ b.previewState = a.previewState
                /\ IF Idle(a)
                   THEN b.started = a.started + 1 /\ Cardinality(b.inflight) = 1
                   ELSE b.needUpdate /\ b.started = a.started /\ b.inflight = a.inflight]_vars

\* C10 as amended: as C10_SetOptions, except that when the session was Idle and
\* its input file cannot be read or the temporary files cannot be written, the
\* runUpdate that is entered ends in the same step: nothing is in flight and
\* previewState is the Error of that failure.
C10_SetOptionsAmended ==
    [][\A s \in Sessions : \A v \in UserFlags :
         SetOptions(s, v) =>
            LET a == sess[s]
                b == sess'[s]
            IN  /\ OptionsSet(s, v, a, b)
                /\ IF ~Idle(a)
                   THEN /\ b.previewState = a.previewState
                        /\ b.needUpdate /\ b.started = a.started
                        /\ b.inflight = a.inflight
                   ELSE IF CannotStart(a.inputFile, editor, disk, tmpdir)
                   THEN /\ b.started = a.started + 1
                        /\ FailedAtOnce(a, b)
                        /\ b.inflight = {}
                   ELSE /\ b.previewState = a.previewState
                        /\ b.started = a.started + 1
                        /\ Cardinality(b.inflight) = 1]_vars

\* The user removed -R from the options of a session whose input is t.txt, and
\* the update it triggered has taken the options without -R.
C10_Witness ==
    \E s \in Sessions :
        /\ sess[s].panel = "open"
        /\ sess[s].inputFile = TTxt
        /\ sess[s].options = <<"-r">>
        /\ \E inv \in sess[s].inflight : inv.opts = <<"-r">>

\* C11: every temporary file that exists belongs to an executeJq call whose
\* evaluator process is still awaited: once a call has ended, by a result, a
\* diagnostic, a missing evaluator or a failed write, its files are gone,
\* whether or not the panel was disposed meanwhile.
C11_TempFilesRemoved ==
    \A s \in Sessions : \A t \in sess[s].tmp :
        \E inv \in sess[s].inflight : inv.id = t.id

\* A disposed session whose evaluator call returned after the disposal, and
\* whose follow-up failed on its writes.
C11_Witness ==
    \E s \in Sessions :
        /\ sess[s].panel = "disposed"
        /\ sess[s].tmp = {}
        /\ Len(sess[s].applied) >= 2
        /\ sess[s].previewState.content.kind = "enospc"

\* C12: a failure of the evaluator (execAsync rejects) or of the
\* read or the writes before it becomes an Error previewState carrying the
\* message of the failure; no exception leaves the handler unless the panel is
\* disposed; the session is then Idle, or its pending update was entered; and
\* a request that reaches an Idle session showing an Error starts an evaluator
\* call as usual.
C12_FailuresBecomeErrors ==
    [][\A s \in Sessions :
         LET a == sess[s]
             b == sess'[s]
         IN  /\ \A inv \in a.inflight :
                   inv \notin b.inflight =>
                      /\ Len(b.applied) > Len(a.applied)
                      /\ b.applied[Len(a.applied) + 1] = inv.id
                      /\ Len(b.applied) = Len(a.applied) + 1 =>
                            \E outcome \in JqOutcomes :
                               /\ b.previewState.content = executeJqResult(a, inv, outcome)
                               /\ b.previewState.type = PreviewType.Error
                                     <=> outcome # "stdout"
                      /\ Len(b.applied) > Len(a.applied) + 1 =>
                            b.previewState.type = PreviewType.Error
                      /\ IF a.needUpdate THEN b.started = a.started + 1
                                         ELSE b.started = a.started /\ Idle(b)
             /\ (Idle(a) /\ Requested(a, b)
                  /\ CannotStart(b.inputFile, editor', disk', tmpdir')) =>
                      /\ FailedAtOnce(a, b)
                      /\ b.previewState.content.shown = b.inputFile
             /\ (Idle(a) /\ Requested(a, b) /\ a.previewState.type = PreviewType.Error
                  /\ ~CannotStart(b.inputFile, editor', disk', tmpdir')) =>
                      /\ Running(b)
                      /\ b.started = a.started + 1
                      /\ Cardinality(b.inflight) = 1
             /\ b.threw => a.threw \/ b.panel = "disposed"]_vars

\* A session displayed the diagnostic of a failed evaluator call, and now runs
\* the call that a later request started.
C12_Witness ==
    \E s \in Sessions :
        /\ sess[s].panel = "open"
        /\ ~sess[s].threw
        /\ sess[s].previewState.type = PreviewType.Error
        /\ sess[s].previewState.content.kind = "diagnostic"
        /\ sess[s].applied = <<1>>
        /\ sess[s].started = 2
        /\ sess[s].served = 1
        /\ Cardinality(sess[s].inflight) = 1

\* C13: when there is no evaluator to run, the message of the Error is the
\* installation hint.
C13_InstallHint ==
    (caught # NotCaught /\ errMsg # NotCaught /\ caught.evaluator = "absent")
    => errMsg = InstallHint

\* C14: when the evaluator printed the text d and exited non-zero, the message
\* of the Error is d with the two temporary paths replaced by the display
\* paths, and nothing else.
C14_Verbatim ==
    (caught # NotCaught /\ errMsg # NotCaught /\ caught.evaluator = "present"
     /\ caught.stdout # <<>>)
    => errMsg = Substituted(caught.stdout, caught)

\* C15: an entry of previewSessions is a session of that document whose panel
\* is open; the open command on a document that has an entry constructs no
\* session, shows no picker and leaves previewSessions and every other session
\* as they are: the session of the entry keeps its input file and its options,
\* renders its page again and gets an update request.
C15_OpenIdempotent ==
    /\ [](\A d \in FilterDocs :
            previewSessions[d] # 0 =>
               /\ sess[previewSessions[d]].panel = "open"
               /\ sess[previewSessions[d]].docUri = d)
    /\ [][\A d \in FilterDocs :
            (previewSessions[d] # 0 /\ events' = events + 1 /\ OpenPreview(d)) =>
               LET a == sess[previewSessions[d]]
                   b == sess'[previewSessions[d]]
               IN  /\ previewSessions' = previewSessions
                   /\ openPicking' = openPicking
                   /\ Constructed' = Constructed
                   /\ \A s \in Sessions \ {previewSessions[d]} : sess'[s] = sess[s]
                   /\ b.panel = "open" /\ b.docUri = d
                   /\ b.inputFile = a.inputFile /\ b.options = a.options
                   /\ b.html.kind = "page" /\ b.html.options = a.options
                   /\ Requested(a, b)]_vars

\* The third event of the run was the open command on the document whose
\* preview the first two opened: there is one session, with a pending update.
C15_Witness ==
    /\ events = 3
    /\ previewSessions[QJq] = 1
    /\ Constructed = {1}
    /\ filterText[QJq] = 0
    /\ \A f \in Files : disk[f] = 0 /\ editor[f] = Closed
    /\ tmpdir = "ok"
    /\ sess[1].options = updateROption(sess[1].inputFile, <<>>)
    /\ sess[1].choosing = 0
    /\ sess[1].needUpdate
    /\ sess[1].burst = 1

\* No session is constructed, previewSessions is the same, and no session has
\* another input file, other options, another previewState, or entered
\* runUpdate or recorded a pending update.
NothingAttempted ==
    /\ previewSessions' = previewSessions
    /\ Constructed' = Constructed
    /\ \A s \in Sessions :
          /\ sess'[s].inputFile = sess[s].inputFile
          /\ sess'[s].options = sess[s].options
          /\ sess'[s].previewState = sess[s].previewState
          /\ sess'[s].started = sess[s].started
          /\ sess'[s].needUpdate = sess[s].needUpdate
          /\ sess'[s].inflight = sess[s].inflight

\* C16: the open command without an active editor or on a document that is
\* not a .jq file shows its message and no picker, and attempts nothing; a
\* picker that returns no selection, at open or at chooseInput, attempts
\* nothing.
C16_Guarded ==
    [][/\ \A ed \in Editors :
            ((ed = NoEditor \/ ~EndsWith(ed, DotJq)) /\ events' = events + 1 /\ OpenPreview(ed))
            => /\ NothingAttempted
               /\ openPicking' = openPicking
               /\ notice' = "Please open a .jq file to use the preview"
       /\ \A d \in FilterDocs :
            (openPicking'[d] < openPicking[d] /\ OpenPreviewPicked(d, Undefined))
            => NothingAttempted
       /\ \A s \in Sessions :
            (sess'[s].choosing < sess[s].choosing /\ ChooseInputPicked(s, Undefined))
            => NothingAttempted]_vars

\* After the preview was opened, the third event was an open command that
\* showed its message: the session still runs its first evaluator call.
C16_Witness ==
    /\ events = 3
    /\ notice # "none"
    /\ previewSessions[QJq] = 1
    /\ Constructed = {1}
    /\ sess[1].started = 1
    /\ Running(sess[1])
    /\ sess[1].choosing = 0

\* C17: the indicator of an open panel is on only after the timer callback set
\* lastLoadingState; a busy session whose indicator was not switched on yet
\* has its timer pending; an Idle session has no timer pending, and with an
\* open panel its indicator is off; and lastLoadingState becomes true only in
\* the step of the timer callback, which finds the session busy.
C17_GraceTimer ==
    /\ [](\A s \in Sessions :
            LET r == sess[s]
            IN  /\ (r.panel = "open" /\ r.indicator) => r.lastLoadingState
                /\ (r.panel = "open" /\ ~Idle(r) /\ ~r.lastLoadingState)
                      => r.loadingIndicatorTimeout
                /\ Idle(r) => ~r.loadingIndicatorTimeout
                /\ (r.panel = "open" /\ Idle(r)) => ~r.lastLoadingState /\ ~r.indicator)
    /\ [][\A s \in Sessions :
            LET a == sess[s]
                b == sess'[s]
            IN  (b.lastLoadingState /\ ~a.lastLoadingState) =>
                   /\ a.loadingIndicatorTimeout /\ ~Idle(a)
                   /\ events' = events
                   /\ b = loadingTimeoutCallback(a, FALSE)]_vars

\* The second busy period of a session: it began in Idle, the timer fired,
\* and the indicator is on.
C17_Witness ==
    \E s \in Sessions :
        /\ sess[s].panel = "open"
        /\ sess[s].applied = <<1>>
        /\ sess[s].started = 2
        /\ Running(sess[s])
        /\ sess[s].lastLoadingState
        /\ sess[s].indicator
        /\ ~sess[s].loadingIndicatorTimeout

C19_OnlyAtCompletion ==
    [][\A s \in Sessions :
         sess'[s].previewState # sess[s].previewState
            => Completed(sess[s], sess'[s])]_vars

\* C19 as amended: previewState changes only in a step that assigns it the
\* result of a call of runUpdate: the step in which the awaited evaluator
\* returns, or the step of a request that finds the session Idle while the
\* input file cannot be read or the temporary files cannot be written.
C19_OnlyAtCompletionAmended ==
    [][\A s \in Sessions :
         LET a == sess[s]
             b == sess'[s]
         IN  b.previewState # a.previewState =>
                /\ Len(b.applied) > Len(a.applied)
                /\ \/ Completed(a, b)
                   \/ /\ Idle(a)
                      /\ Requested(a, b)
                      /\ CannotStart(b.inputFile, editor', disk', tmpdir')
                      /\ FailedAtOnce(a, b)]_vars

\* An update is pending behind a running one, and the Result of the previous
\* call is still the previewState.
C19_Witness ==
    \E s \in Sessions :
        /\ sess[s].panel = "open"
        /\ RunningWithPendingUpdate(sess[s])
        /\ sess[s].applied = <<1>>
        /\ sess[s].started = 2
        /\ sess[s].previewState.type = PreviewType.Result
        /\ sess[s].previewState.content.filter # filterText[sess[s].docUri]

\* C20: a disposed session holds no subscription, a further dispose() changes
\* nothing, and no change of the filter document, of an input document or of
\* a file on disk changes anything in the session.
C20_Disposed ==
    /\ [](\A s \in Sessions :
            sess[s].panel = "disposed" =>
               /\ sess[s].disposables = {}
               /\ dispose(sess[s]) = sess[s])
    /\ [][\A s \in Sessions :
            (/\ sess[s].panel = "disposed"
             /\ filterText' # filterText \/ disk' # disk \/ editor' # editor)
            => sess'[s] = sess[s]]_vars

\* The filter document was edited after the panel was closed: the disposed
\* session is Idle with the Result of the old filter text.
C20_Witness ==
    \E s \in Sessions :
        /\ sess[s].panel = "disposed"
        /\ Idle(sess[s])
        /\ ~sess[s].threw
        /\ sess[s].previewState.type = PreviewType.Result
        /\ sess[s].previewState.content.filter # filterText[sess[s].docUri]

\* The step deletes the input file of the session a, whose panel is open.
InputFileDeleted(a) ==
    /\ a.panel = "open"
    /\ disk[a.inputFile] # Missing
    /\ disk'[a.inputFile] = Missing

\* C21: when the input file of a session with an open panel is deleted, its
\* panel shows the 'Input file was deleted.' warning, and the step leaves its
\* previewState, options, input file, updating and needUpdate as they are and
\* starts no evaluator call.
C21_DeletedWarning ==
    [][\A s \in Sessions :
         LET a == sess[s]
             b == sess'[s]
         IN  InputFileDeleted(a) =>
                /\ b.html = DeletedWarning
                /\ b.previewState = a.previewState
                /\ b.options = a.options
                /\ b.inputFile = a.inputFile
                /\ b.updating = a.updating
                /\ b.needUpdate = a.needUpdate
                /\ b.started = a.started
                /\ b.inflight = a.inflight]_vars

\* C22: the input content of an evaluator call is, at the moment the call is
\* started, the text of the open document of the session's input file if
\* there is one (saved or not), and the content of the file on disk only if
\* there is none.
C22_PrefersOpenDocument ==
    [][\A s \in Sessions :
         \A inv \in sess'[s].inflight \ sess[s].inflight :
            LET f == sess'[s].inputFile
            IN  /\ editor'[f] # Closed => inv.input = editor'[f]
                /\ editor'[f] = Closed => inv.input = disk'[f]]_vars

\* An evaluator call runs on the unsaved text of the open input document,
\* which differs from the file on disk.
C22_Witness ==
    \E s \in Sessions :
        /\ sess[s].panel = "open"
        /\ editor[sess[s].inputFile] # Closed
        /\ editor[sess[s].inputFile] # disk[sess[s].inputFile]
        /\ \E inv \in sess[s].inflight : inv.input = editor[sess[s].inputFile]

ChangedDocuments ==
    {<<"filter", d>> : d \in {x \in FilterDocs : filterText'[x] # filterText[x]}}
    \cup {<<"file", f>> : f \in {x \in Files : disk'[x] # disk[x]}}
    \cup {<<"document", f>> : f \in {x \in Files : editor'[x] # editor[x]}}

\* C26: the filter document, the input files and their open documents change
\* only by what the user does to them: a step in which one changes is the
\* step of one user edit of one document or file, not the return of an
\* evaluator or a timer callback, and no command, message or panel close is
\* handled in it; and what a session writes are the two temporary files named
\* for the evaluator call it starts.
C26_ReadOnly ==
    [][/\ ChangedDocuments # {} =>
            /\ Cardinality(ChangedDocuments) = 1
            /\ events' = events + 1
            /\ notice' = notice
            /\ openPicking' = openPicking
            /\ previewSessions' = previewSessions
            /\ created' = created
            /\ \A s \in Sessions :
                  /\ sess'[s].panel = sess[s].panel
                  /\ sess'[s].choosing = sess[s].choosing
                  /\ sess'[s].options = sess[s].options
                  /\ sess'[s].inputFile = sess[s].inputFile
                  /\ Len(sess'[s].applied) > Len(sess[s].applied)
                        => Idle(sess[s]) /\ Requested(sess[s], sess'[s])
       /\ \A s \in Sessions :
             \A t \in sess'[s].tmp \ sess[s].tmp :
                /\ sess'[s].started > sess[s].started
                /\ t \in {TmpFile(sess'[s].started), TmpFilter(sess'[s].started)}]_vars

\* A session whose options and input file were set in the panel has shown a
\* result and runs a further evaluator call on its temporary files, and every
\* document and file is as it was at the start.
C26_Witness ==
    /\ filterText[QJq] = 0
    /\ \A f \in Files : disk[f] = 0 /\ editor[f] = Closed
    /\ \E s \in Sessions :
          /\ sess[s].panel = "open"
          /\ sess[s].inputFile # sess[s].watched
          /\ Len(sess[s].applied) >= 1
          /\ sess[s].tmp = {TmpFile(sess[s].started), TmpFilter(sess[s].started)}

\* C27: the previewState made of a call of executeJq, tag and content, is the
\* same whatever names the two temporary files of the call were given.
C27_Deterministic ==
    returned # NotReturned =>
        \A n \in TmpNames : executeJq([call EXCEPT !.names = n]) = returned

\* C28: a session has a panel from its construction on, and holds its
\* subscriptions exactly while the panel is open; the step that closes the
\* panel disposes the session and leaves no entry of previewSessions that
\* refers to it, and no later step opens the panel again or enters the
\* session in previewSessions; a session is entered in previewSessions in
\* the step that constructs it, with an open panel, and it starts from the
\* placeholder: it shows the placeholder while its first update runs, or the
\* Error of that update if it failed at once, and no session constructed
\* before is changed by the step.
C28_Lifecycle ==
    /\ [](\A s \in Constructed :
            /\ sess[s].panel = "open" <=> sess[s].disposables = AllDisposables
            /\ sess[s].panel = "disposed" <=> sess[s].disposables = {}
            /\ sess[s].panel = "disposed" =>
                  \A d \in FilterDocs : previewSessions[d] # s)
    /\ [][\A s \in Sessions :
            LET a == sess[s]
                b == sess'[s]
            IN  /\ a.panel = "disposed" => b.panel = "disposed"
                /\ (a.panel = "open" /\ b.panel = "disposed") =>
                      /\ b.disposables = {}
                      /\ previewSessions'[a.docUri] = 0
                /\ \A d \in FilterDocs :
                      (previewSessions'[d] = s /\ previewSessions[d] # s) =>
                         /\ a = NoSession
                         /\ openPicking'[d] = openPicking[d] - 1
                         /\ b.panel = "open" /\ b.docUri = d
                         /\ b.started = 1
                         /\ IF CannotStart(b.inputFile, editor', disk', tmpdir')
                            THEN FailedAtOnce(a, b) /\ b.applied = <<1>>
                            ELSE /\ b.previewState = NoSession.previewState
                                 /\ b.applied = <<>>
                                 /\ Running(b)
                         /\ \A t \in Sessions \ {s} : sess'[t] = sess[t]]_vars

\* The panel of the first session of q.jq was closed after it had shown a
\* result, and the second session of q.jq is in previewSessions with the
\* placeholder.
C28_Witness ==
    /\ sess[1].panel = "disposed"
    /\ sess[1].docUri = QJq
    /\ Len(sess[1].applied) >= 1
    /\ openPicking[QJq] = 0
    /\ previewSessions[QJq] = 2
    /\ sess[2].panel = "open"
    /\ sess[2].previewState.type = PreviewType.Placeholder

\* C29: no step enters runUpdate or starts an evaluator call for a session
\* whose panel is disposed, also when an update was pending at the disposal
\* and the call in flight returns after it.
C29_NoStartAfterDispose ==
    [][\A s \in Sessions :
         sess[s].panel = "disposed" =>
            /\ sess'[s].started = sess[s].started
            /\ sess'[s].inflight \subseteq sess[s].inflight]_vars

\* The sessions of document d whose panel is open.
LivePanels(d) == {s \in Constructed : sess[s].docUri = d /\ sess[s].panel = "open"}

\* C30: whatever the order in which open commands and their pickers run, a
\* filter document has at most one open panel, the entry of the document in
\* previewSessions is the session of that panel, and the close of a panel
\* removes an entry only if it is the entry of the session of that panel.
C30_OnePanelPerDocument ==
    /\ [](\A d \in FilterDocs :
            /\ Cardinality(LivePanels(d)) <= 1
            /\ \A s \in LivePanels(d) : previewSessions[d] = s)
    /\ [][\A s \in Sessions :
            (sess[s].panel = "open" /\ sess'[s].panel = "disposed") =>
               \A d \in FilterDocs :
                  previewSessions'[d] # previewSessions[d] => previewSessions[d] = s]_vars

\* C31: a session with an open panel that is Idle, and of which a call of
\* runUpdate has ended, holds the outcome of a call that read the input file
\* now selected and the options now set; and every step that changes the input
\* file or the options of such a session calls requestUpdate.
C31_CurrentSelection ==
    /\ [](\A s \in Sessions :
            (sess[s].panel = "open" /\ Idle(sess[s]) /\ sess[s].applied # <<>>)
            => /\ sess[s].applied[Len(sess[s].applied)] = sess[s].started
               /\ sess[s].ranWith.file = sess[s].inputFile
               /\ sess[s].ranWith.opts = sess[s].options
               /\ sess[s].previewState.content.kind \in {"stdout", "diagnostic"} =>
                     sess[s].previewState.content.opts = sess[s].options)
    /\ [][\A s \in Sessions :
            (/\ sess[s].panel = "open"
             /\ \/ sess'[s].inputFile # sess[s].inputFile
                \/ sess'[s].options # sess[s].options)
            => Requested(sess[s], sess'[s])]_vars

\* The input file and the options of a session were both changed during a run,
\* and the session is Idle with the Result of the follow-up.
C31_Witness ==
    \E s \in Sessions :
        /\ sess[s].panel = "open"
        /\ Idle(sess[s])
        /\ sess[s].watched # sess[s].inputFile
        /\ "-r" \in Range(sess[s].options)
        /\ sess[s].served >= 2
        /\ sess[s].started = 2
        /\ sess[s].previewState.type = PreviewType.Result

\* C32: the open command that constructs a session enters runUpdate once in the
\* same step; the previewState of a session is the Placeholder exactly as long
\* as no call of runUpdate has assigned its outcome; the tag and the content
\* always belong together; and previewState changes only when an outcome is
\* assigned, to a Result or an Error, never back to the Placeholder.
C32_PlaceholderUntilFirstResult ==
    /\ [](\A s \in Constructed :
            LET p == sess[s].previewState
            IN  /\ sess[s].started >= 1
                /\ p.type = PreviewType.Placeholder <=> sess[s].applied = <<>>
                /\ p.type = PreviewType.Placeholder <=> p.content = LoadingContent
                /\ p.type = PreviewType.Result <=> p.content.kind = "stdout"
                /\ p.type = PreviewType.Error <=>
                      p.content.kind \in {"diagnostic", "enoent", "enospc"})
    /\ [][\A s \in Sessions :
            LET a == sess[s]
                b == sess'[s]
            IN  /\ (a.panel = "none" /\ b.panel # "none") =>
                      /\ b.started = 1
                      /\ a.previewState.type = PreviewType.Placeholder
                      /\ b.inflight = {} <=> b.applied = <<1>>
                /\ b.previewState # a.previewState =>
                      /\ Len(b.applied) > Len(a.applied)
                      /\ b.previewState.type \in {PreviewType.Result, PreviewType.Error}
                /\ Len(b.applied) > Len(a.applied) =>
                      b.previewState.type \in {PreviewType.Result, PreviewType.Error}]_vars

\* One session has replaced a Result by an Error, while another one, opened
\* later, still holds the Placeholder with its first invocation in flight.
C32_Witness ==
    \E s, t \in Constructed :
        /\ Len(sess[s].applied) >= 2
        /\ sess[s].previewState.type = PreviewType.Error
        /\ sess[t].previewState.type = PreviewType.Placeholder
        /\ sess[t].started = 1
        /\ Cardinality(sess[t].inflight) = 1

\* C33: a session never has more than one 100 ms timer pending; a session that
\* is Idle has none pending and its lastLoadingState is false; and the last
\* setLoading message posted to the page of an Idle session, if one was
\* posted, is setLoading(false).
C33_IndicatorOffWhenIdle ==
    \A s \in Constructed :
        LET r == sess[s]
        IN  /\ r.timers <= 1
            /\ Idle(r) => /\ r.timers = 0
                          /\ ~r.lastLoadingState
                          /\ r.lastMsg # SetLoading(TRUE)

\* C34: the options of a session are always a list without duplicates of flags
\* of the catalog, the page displayed in an open panel shows them, and a click
\* on the flag v in the panel changes the membership of v and of no other flag.
C34_OptionSet ==
    /\ [](\A s \in Constructed :
            /\ Range(sess[s].options) \subseteq Range(Catalog)
            /\ Cardinality(Range(sess[s].options)) = Len(sess[s].options)
            /\ (sess[s].panel = "open" /\ sess[s].html.kind = "page") =>
                  sess[s].html.options = sess[s].options)
    /\ [][\A s \in Sessions : \A v \in UserFlags :
            (sess'[s] # sess[s] /\ events' # events /\ SetOptions(s, v)) =>
               \A o \in Range(Catalog) :
                  (o \in Range(sess'[s].options) <=> o \notin Range(sess[s].options))
                  <=> o = v]_vars

\* The user has removed in the panel the -R that the policy had added for
\* t.txt, after adding -r.
C34_Witness ==
    \E s \in Constructed :
        /\ sess[s].panel = "open"
        /\ sess[s].inputFile = TTxt
        /\ sess[s].html.kind = "page"
        /\ sess[s].options = <<"-r">>
        /\ sess[s].started + sess[s].burst >= 2

\* The step leaves of session b the flags, the options, the input file and
\* previewState as they are, and enters no runUpdate in it.
Untouched(b) ==
    /\ sess'[b].updating = sess[b].updating
    /\ sess'[b].needUpdate = sess[b].needUpdate
    /\ sess'[b].options = sess[b].options
    /\ sess'[b].inputFile = sess[b].inputFile
    /\ sess'[b].previewState = sess[b].previewState
    /\ sess'[b].started = sess[b].started
    /\ sess'[b].inflight = sess[b].inflight

\* C35: a change of the input file of session a, as a file or as an open
\* document, leaves every other session untouched whose input file is another
\* one; so does a change of a's filter document for a session of another
\* document; and so does a step of a's own handlers (setOptions, chooseInput,
\* the return of its evaluator), in which no file and no document changes.
C35_Independent ==
    [][\A a, b \in Constructed :
         (a # b /\ sess[a].panel = "open" /\ sess'[b].panel = sess[b].panel) =>
            /\ \A f \in Files :
                  (/\ f = sess[a].inputFile
                   /\ f # sess[b].inputFile
                   /\ disk'[f] # disk[f] \/ editor'[f] # editor[f])
                  => Untouched(b)
            /\ \A d \in FilterDocs :
                  (/\ d = sess[a].docUri
                   /\ d # sess[b].docUri
                   /\ filterText'[d] # filterText[d])
                  => Untouched(b)
            /\ (/\ disk' = disk /\ editor' = editor /\ filterText' = filterText
                /\ previewSessions' = previewSessions
                /\ \/ sess'[a].options # sess[a].options
                   \/ sess'[a].inputFile # sess[a].inputFile
                   \/ Completed(sess[a], sess'[a]))
               => Untouched(b)]_vars

\* C36: the open command on a document whose preview is open requests an
\* update of that session: if the session is Idle, runUpdate is entered once
\* (and ends at once with an Error when the input cannot be read or the
\* temporary files cannot be written); if an update is running, the command
\* only sets needUpdate, enters nothing and leaves the invocation in flight as
\* it is; and the return of an evaluator enters runUpdate once if needUpdate is
\* set, however many commands set it, and not at all otherwise.
C36_ReopenSingleFlight ==
    /\ [][\A d \in FilterDocs :
            (previewSessions[d] # 0 /\ events' = events + 1 /\ OpenPreview(d)) =>
               LET a == sess[previewSessions[d]]
                   b == sess'[previewSessions[d]]
               IN  /\ Idle(a) \/ a.updating
                   /\ Idle(a) =>
                         /\ b.started = a.started + 1
                         /\ IF CannotStart(a.inputFile, editor, disk, tmpdir)
                            THEN FailedAtOnce(a, b) /\ b.inflight = {}
                            ELSE Running(b) /\ Cardinality(b.inflight) = 1
                   /\ a.updating =>
                         /\ RunningWithPendingUpdate(b)
                         /\ b.burst = a.burst + 1
                         /\ b.started = a.started
                         /\ b.inflight = a.inflight]_vars
    /\ [][\A s \in Sessions :
            Completed(sess[s], sess'[s]) =>
               sess'[s].started - sess[s].started = IF sess[s].needUpdate THEN 1 ELSE 0]_vars

\* The open command was run twice on the open preview while its first
\* invocation was running, and nothing else happened: one follow-up was
\* started, it has returned, and the session is Idle.
C36_Witness ==
    /\ events = 4
    /\ previewSessions[QJq] = 1
    /\ Constructed = {1}
    /\ filterText[QJq] = 0
    /\ \A f \in Files : disk[f] = 0 /\ editor[f] = Closed
    /\ sess[1].options = updateROption(sess[1].inputFile, <<>>)
    /\ sess[1].choosing = 0
    /\ sess[1].served = 2
    /\ sess[1].started = 2
    /\ sess[1].applied = <<1, 2>>
    /\ Idle(sess[1])

====
